---- MODULE Spec2Model ----
(***************************************************************************)
(* Lodestone (src/main.rs): detection of a mod's identity from the         *)
(* manifests inside a jar, reconciliation of a directory of jars against   *)
(* a module (the registry), and the tag-gated bulk file operations.        *)
(***************************************************************************)
EXTENDS Naturals, Sequences, FiniteSets, TLC

VARIABLES
    files,  \* the filesystem: path <<dir, name>> -> content of the file there
    dirs,   \* the directories that exist
    locked, \* the paths whose file can be read but not removed, renamed or written
    call,   \* the core function being called: its arguments, progress, result
    state   \* the LodestoneApp of a session

vars == <<files, dirs, locked, call, state>>

(***************************************************************************)
(* Bounds of the model.                                                    *)
(***************************************************************************)
MaxEntries == 2     \* entries per inspected archive

(***************************************************************************)
(* Option and Result.                                                      *)
(***************************************************************************)
NoneOpt == [some |-> FALSE]
Some(x) == [some |-> TRUE, val |-> x]
Ok(x) == [ok |-> TRUE, val |-> x]
Err(e) == [ok |-> FALSE, err |-> e]

AndThen(o, F(_)) == IF o.some THEN F(o.val) ELSE NoneOpt
MapOpt(o, F(_)) == IF o.some THEN Some(F(o.val)) ELSE NoneOpt

(***************************************************************************)
(* Strings.                                                                *)
(***************************************************************************)
EndsWith(s, suffix) ==
    /\ Len(s) >= Len(suffix)
    /\ SubSeq(s, Len(s) - Len(suffix) + 1, Len(s)) = suffix

Contains(s, pat) ==
    \E i \in 1..(Len(s) + 1) :
        /\ i + Len(pat) - 1 <= Len(s)
        /\ SubSeq(s, i, i + Len(pat) - 1) = pat

LowerChar(c) ==
    CASE c = "N" -> "n" [] c = "E" -> "e" [] c = "O" -> "o" [] c = "F" -> "f"
      [] c = "R" -> "r" [] c = "G" -> "g" [] c = "J" -> "j" [] c = "A" -> "a"
      [] c = "D" -> "d" [] c = "L" -> "l" [] c = "T" -> "t"
      [] OTHER -> c

RECURSIVE ToLowercaseFrom(_, _)
ToLowercaseFrom(s, i) ==
    IF i > Len(s) THEN ""
    ELSE LowerChar(SubSeq(s, i, i)) \o ToLowercaseFrom(s, i + 1)

ToLowercase(s) == ToLowercaseFrom(s, 1)

(***************************************************************************)
(* Enumerations of the program.                                            *)
(***************************************************************************)
DefaultTags == {"Unknown", "Client", "Server", "Both"}
ModTypes == {"Unknown", "Forge", "NeoForge", "Fabric", "Quilt"}

(***************************************************************************)
(* Structured values, as toml::Value and serde_json::Value give them.      *)
(* A float is <<whole, tenths>>.                                           *)
(***************************************************************************)
Str(s) == [t |-> "str", v |-> s]
Int(n) == [t |-> "int", v |-> n]
Float(w, d) == [t |-> "float", v |-> <<w, d>>]
Arr(xs) == [t |-> "arr", v |-> xs]
Obj(f) == [t |-> "obj", v |-> f]

Get(x, key) ==
    IF x.t = "obj" /\ key \in DOMAIN x.v THEN Some(x.v[key]) ELSE NoneOpt
AsArray(x) == IF x.t = "arr" THEN Some(x.v) ELSE NoneOpt
First(xs) == IF Len(xs) > 0 THEN Some(xs[1]) ELSE NoneOpt
AsStr(x) == IF x.t = "str" THEN Some(x.v) ELSE NoneOpt
OrElse(o, p) == IF o.some THEN o ELSE p

FloatToString(f) ==
    IF f[2] = 0 THEN ToString(f[1])
    ELSE ToString(f[1]) \o "." \o ToString(f[2])

parse_toml_version(x) ==
    IF x.t = "str" THEN Some(x.v)
    ELSE IF x.t = "float" THEN Some(FloatToString(x.v))
    ELSE IF x.t = "int" THEN Some(ToString(x.v))
    ELSE NoneOpt

\* serde_json's as_f64 answers for every number, integer or not
parse_json_version(x) ==
    IF x.t = "str" THEN Some(x.v)
    ELSE IF x.t = "float" THEN Some(FloatToString(x.v))
    ELSE IF x.t = "int" THEN Some(ToString(x.v))
    ELSE NoneOpt

(***************************************************************************)
(* File contents.  A zip container is its entries in stored order and      *)
(* whether its central directory is written; an entry is a name and data.  *)
(* Entry data: "corrupt" cannot be opened, "binary" is not UTF-8, "text"   *)
(* is a text in one syntax (fmt) whose characters are `text` followed by   *)
(* the strings of its document `doc`.                                      *)
(***************************************************************************)
Zip(entries) == [k |-> "zip", entries |-> entries, cd |-> TRUE]
Entry(name, data) == [name |-> name, data |-> data]
Corrupt == [k |-> "corrupt"]
Binary == [k |-> "binary"]
Blob == [k |-> "blob"]
Text(fmt, text, doc) == [k |-> "text", fmt |-> fmt, text |-> text, doc |-> doc]
Junk == [k |-> "junk"]

RECURSIVE StringsOf(_)
RECURSIVE StringsOfSeq(_, _)
StringsOfSeq(xs, i) ==
    IF i > Len(xs) THEN "" ELSE StringsOf(xs[i]) \o StringsOfSeq(xs, i + 1)

RECURSIVE StringsOfObj(_, _)
StringsOfObj(f, keys) ==
    IF keys = {} THEN ""
    ELSE LET key == CHOOSE x \in keys : TRUE
         IN key \o " " \o StringsOf(f[key]) \o StringsOfObj(f, keys \ {key})

StringsOf(x) ==
    IF x.t = "str" THEN x.v \o " "
    ELSE IF x.t = "arr" THEN StringsOfSeq(x.v, 1)
    ELSE IF x.t = "obj" THEN StringsOfObj(x.v, DOMAIN x.v)
    ELSE ""

\* file.read_to_string(&mut contents)
ReadToString(data) ==
    IF data.k = "text" THEN Ok(data.text \o " " \o StringsOf(data.doc))
    ELSE Err("utf8")

\* toml::from_str / serde_json::from_str
ParseAs(fmt, data) == IF data.fmt = fmt THEN Ok(data.doc) ELSE Err("parse")

(***************************************************************************)
(* get_mod_id_and_type: the identity a jar's first manifest gives.         *)
(***************************************************************************)
Identity(id, found_type, detected_version) ==
    [mod_id |-> id, detected_type |-> found_type,
     detected_version |-> detected_version]

\* a mods.toml branch that looks for the loader's name without lowering the text
ParseModsTomlCaseSensitive(data) ==
    LET contents == ReadToString(data) IN
    IF ~contents.ok THEN contents
    ELSE
    LET found_type == IF Contains(contents.val, "neoforge")
                         \/ Contains(contents.val, "neo-forge")
                      THEN "NeoForge" ELSE "Forge"
        parsed == ParseAs("toml", data)
    IN
    IF ~parsed.ok THEN parsed
    ELSE
    LET first_mod == AndThen(AndThen(Get(parsed.val, "mods"), AsArray), First)
        mod_id == AndThen(AndThen(first_mod, LAMBDA m : Get(m, "modId")), AsStr)
        detected_version ==
            AndThen(AndThen(first_mod,
                            LAMBDA m : OrElse(Get(m, "version"), Get(m, "modVersion"))),
                    parse_toml_version)
    IN Ok(MapOpt(mod_id, LAMBDA id : Identity(id, found_type, detected_version)))

\* the branch of an entry whose name ends with "mods.toml"
ParseModsToml(data) ==
    LET contents == ReadToString(data) IN
    IF ~contents.ok THEN contents
    ELSE
    LET lower == ToLowercase(contents.val)
        found_type == IF Contains(lower, "neoforge") \/ Contains(lower, "neo-forge")
                      THEN "NeoForge" ELSE "Forge"
        parsed == ParseAs("toml", data)
    IN
    IF ~parsed.ok THEN parsed
    ELSE
    LET first_mod == AndThen(AndThen(Get(parsed.val, "mods"), AsArray), First)
        mod_id == AndThen(AndThen(first_mod, LAMBDA m : Get(m, "modId")), AsStr)
        detected_version ==
            AndThen(AndThen(first_mod,
                            LAMBDA m : OrElse(Get(m, "version"), Get(m, "modVersion"))),
                    parse_toml_version)
    IN Ok(MapOpt(mod_id, LAMBDA id : Identity(id, found_type, detected_version)))

\* a branch for "fabric.mod.json" that reports the Quilt family
ParseFabricModJsonAsQuilt(data) ==
    LET contents == ReadToString(data) IN
    IF ~contents.ok THEN contents
    ELSE
    LET parsed == ParseAs("json", data) IN
    IF ~parsed.ok THEN parsed
    ELSE
    LET mod_id == AndThen(Get(parsed.val, "id"), AsStr)
        detected_version == AndThen(Get(parsed.val, "version"), parse_json_version)
    IN Ok(MapOpt(mod_id, LAMBDA id : Identity(id, "Quilt", detected_version)))

\* the branch of an entry whose name ends with "fabric.mod.json"
ParseFabricModJson(data) ==
    LET contents == ReadToString(data) IN
    IF ~contents.ok THEN contents
    ELSE
    LET parsed == ParseAs("json", data) IN
    IF ~parsed.ok THEN parsed
    ELSE
    LET mod_id == AndThen(Get(parsed.val, "id"), AsStr)
        detected_version == AndThen(Get(parsed.val, "version"), parse_json_version)
    IN Ok(MapOpt(mod_id, LAMBDA id : Identity(id, "Fabric", detected_version)))

\* the branch of an entry whose name ends with "mcmod.info"
ParseMcmodInfo(data) ==
    LET contents == ReadToString(data) IN
    IF ~contents.ok THEN contents
    ELSE
    LET parsed == ParseAs("json", data) IN
    IF ~parsed.ok THEN parsed
    ELSE
    LET first_mod == AndThen(AsArray(parsed.val), First)
        mod_id == AndThen(AndThen(first_mod, LAMBDA m : Get(m, "modid")), AsStr)
        detected_version ==
            AndThen(AndThen(first_mod, LAMBDA m : Get(m, "version")),
                    parse_json_version)
    IN Ok(MapOpt(mod_id, LAMBDA id : Identity(id, "Forge", detected_version)))

IsManifestName(name) ==
    \/ EndsWith(name, "mods.toml")
    \/ EndsWith(name, "fabric.mod.json")
    \/ EndsWith(name, "mcmod.info")

\* what the branch taken for a manifest entry returns
ParseManifest(e) ==
    IF EndsWith(e.name, "mods.toml") THEN ParseModsToml(e.data)
    ELSE IF EndsWith(e.name, "fabric.mod.json") THEN ParseFabricModJson(e.data)
    ELSE ParseMcmodInfo(e.data)

\* a loop that goes on to the next entry when a manifest gives no mod id
RECURSIVE InspectFromKeepLooking(_, _)
InspectFromKeepLooking(entries, i) ==
    IF i > Len(entries) THEN [res |-> Ok(NoneOpt), at |-> i]
    ELSE IF entries[i].data.k = "corrupt" THEN [res |-> Err("zip"), at |-> i]
    ELSE IF IsManifestName(entries[i].name)
              /\ (~ParseManifest(entries[i]).ok \/ ParseManifest(entries[i]).val.some)
         THEN [res |-> ParseManifest(entries[i]), at |-> i]
    ELSE InspectFromKeepLooking(entries, i + 1)

\* the loop over the entries from index i on: the result, and the index of
\* the entry it returned at (one past the end when no entry returned)
RECURSIVE InspectFrom(_, _)
InspectFrom(entries, i) ==
    IF i > Len(entries) THEN [res |-> Ok(NoneOpt), at |-> i]
    ELSE IF entries[i].data.k = "corrupt" THEN [res |-> Err("zip"), at |-> i]
    ELSE IF IsManifestName(entries[i].name)
         THEN [res |-> ParseManifest(entries[i]), at |-> i]
    ELSE InspectFrom(entries, i + 1)

NoFile == [k |-> "absent"]
FileAt(fs, path) == IF path \in DOMAIN fs THEN fs[path] ELSE NoFile
Without(fs, path) == [q \in DOMAIN fs \ {path} |-> fs[q]]

\* fs::File::open and zip::ZipArchive::new, then the loop
Inspect(fs, path) ==
    LET file == FileAt(fs, path) IN
    IF file = NoFile THEN [res |-> Err("io"), at |-> 0]
    ELSE IF file.k # "zip" \/ ~file.cd THEN [res |-> Err("zip"), at |-> 0]
    ELSE InspectFrom(file.entries, 1)

\* an inspector for which a jar without manifest is an error
get_mod_id_and_type_or_fail(fs, path) ==
    IF Inspect(fs, path).res = Ok(NoneOpt) THEN Err("no manifest") ELSE Inspect(fs, path).res

get_mod_id_and_type(fs, path) == Inspect(fs, path).res

(***************************************************************************)
(* The archives the inspector is tried on: every sequence of at most       *)
(* MaxEntries entries, each a name with some data.                         *)
(***************************************************************************)
EntryNames == {"META-INF/mods.toml", "fabric.mod.json", "mcmod.info", "pack.png"}

ModTable(id, version) == Obj([modId |-> Str(id), version |-> version])

EntryDatas ==
    { Text("toml", "modLoader javafml",
           Obj([mods |-> Arr(<<ModTable("create", Str("0.5.8"))>>)])),
      Text("toml", "loader NeoForge", Obj([mods |-> Arr(<<ModTable("jei", Int(2))>>)])),
      Text("toml", "", Obj([mods |-> Arr(<<>>)])),
      Text("json", "", Obj([id |-> Str("jei"), version |-> Str("0.5.9")])),
      Text("json", "", Obj([name |-> Str("no id")])),
      Text("json", "", Arr(<<Obj([modid |-> Str("create"), version |-> Float(1, 0)])>>)),
      Text("toml", "", Obj([mods |-> Arr(<<ModTable("NEO-FORGE", Str("1"))>>)])),
      Text("toml", "neo forge", Obj([mods |-> Arr(<<ModTable("create", Str("1"))>>)])),
      Text("json", "", Obj([id |-> Str("neoforge")])),
      Text("garbage", "", Str("")),
      Binary,
      Corrupt }

Entries == {Entry(n, d) : n \in EntryNames, d \in EntryDatas}

SeqsUpTo(S, n) == UNION {[1..m -> S] : m \in 0..n}

InspectedPath == <<"mods", "a.jar">>

Idle == [fn |-> "idle"]

\* no session: a core function is called on its own
NoApp == [log |-> <<>>]

InspectedFiles ==
    {<<>>, InspectedPath :> Junk}
        \cup {InspectedPath :> Zip(es) : es \in SeqsUpTo(Entries, MaxEntries)}

InitInspect ==
    /\ files \in InspectedFiles
    /\ dirs = {"mods"}
    /\ locked = {}
    /\ call = Idle
    /\ state = NoApp

CallInspect ==
    /\ call = Idle
    /\ call' = [fn |-> "get_mod_id_and_type", path |-> InspectedPath,
                out |-> Inspect(files, InspectedPath)]
    /\ UNCHANGED <<files, dirs, locked, state>>

NextInspect == CallInspect

SpecInspect == InitInspect /\ [][NextInspect]_vars

(***************************************************************************)
(* Claims about get_mod_id_and_type.                                       *)
(***************************************************************************)
InspectedEntries == files[InspectedPath].entries

\* the call has returned for a zip container all of whose entries can be opened
InspectedWellFormed ==
    /\ call.fn = "get_mod_id_and_type"
    /\ FileAt(files, InspectedPath).k = "zip"
    /\ \A i \in 1..Len(InspectedEntries) : InspectedEntries[i].data.k # "corrupt"

ManifestIndices(es) == {i \in 1..Len(es) : IsManifestName(es[i].name)}
FirstManifest(es) ==
    CHOOSE i \in ManifestIndices(es) : \A j \in ManifestIndices(es) : i <= j

LetterPairs ==
    {<<"N", "n">>, <<"E", "e">>, <<"O", "o">>, <<"F", "f">>, <<"R", "r">>, <<"G", "g">>}

SameLetter(a, b) == a = b \/ <<a, b>> \in LetterPairs \/ <<b, a>> \in LetterPairs

\* pat occurs in s, letters compared without regard to case
ContainsIgnoringCase(s, pat) ==
    \E i \in 1..Len(s) :
        /\ i + Len(pat) - 1 <= Len(s)
        /\ \A k \in 1..Len(pat) : SameLetter(SubSeq(s, i + k - 1, i + k - 1), SubSeq(pat, k, k))

\* the entry the call returned an identity at
IdentityGiven ==
    /\ InspectedWellFormed
    /\ call.out.res.ok
    /\ call.out.res.val.some

DecidingEntry == InspectedEntries[call.out.at]

\* C11: the loader family of a returned identity is decided by the dialect of
\* the manifest that gave it: Fabric for fabric.mod.json, Forge for mcmod.info,
\* and for mods.toml NeoForge when the text of the file contains "neoforge" or
\* "neo-forge" in any mix of cases and Forge otherwise.
C11_FamilyFromDialect ==
    IdentityGiven =>
        call.out.res.val.val.detected_type =
            IF EndsWith(DecidingEntry.name, "mods.toml")
            THEN IF \/ ContainsIgnoringCase(ReadToString(DecidingEntry.data).val, "neoforge")
                    \/ ContainsIgnoringCase(ReadToString(DecidingEntry.data).val, "neo-forge")
                 THEN "NeoForge" ELSE "Forge"
            ELSE IF EndsWith(DecidingEntry.name, "fabric.mod.json") THEN "Fabric"
            ELSE "Forge"

\* a mods.toml whose only mention of the loader is in upper case, after an
\* entry that is no manifest
C11_Witness ==
    /\ IdentityGiven
    /\ call.out.at = 2
    /\ EndsWith(DecidingEntry.name, "mods.toml")
    /\ ~Contains(ReadToString(DecidingEntry.data).val, "neoforge")
    /\ ~Contains(ReadToString(DecidingEntry.data).val, "neo-forge")
    /\ call.out.res.val.val.mod_id = "NEO-FORGE"
    /\ call.out.res.val.val.detected_type = "NeoForge"

(***************************************************************************)
(* The module (registry) and scan_directory.                               *)
(***************************************************************************)
Mod(version, tag, type) ==
    [mod_version |-> version, mod_tag |-> tag, mod_type |-> type]

\* Path::extension: the text after the last dot of a name, when that dot is
\* not the name's first character
DotIndices(name) == {i \in 1..Len(name) : SubSeq(name, i, i) = "."}
LastDot(name) == CHOOSE i \in DotIndices(name) : \A j \in DotIndices(name) : j <= i
Extension(name) ==
    IF DotIndices(name) = {} \/ LastDot(name) = 1 THEN NoneOpt
    ELSE Some(SubSeq(name, LastDot(name) + 1, Len(name)))

NamesIn(fs, dir) == {p[2] : p \in {q \in DOMAIN fs : q[1] = dir}}

Orderings(S) ==
    {f \in [1..Cardinality(S) -> S] : \A x \in S : \E i \in DOMAIN f : f[i] = x}

\* fs::read_dir: the names of a directory, in an order the system chooses
ReadDir(fs, ds, dir) ==
    IF dir \in ds THEN {Ok(listing) : listing \in Orderings(NamesIn(fs, dir))}
    ELSE {Err("io")}

IsJar(name) == Extension(name) = Some("jar")

\* A file name is a sequence of bytes: "#" and "%" stand for two bytes that
\* are not UTF-8, and "?" for U+FFFD, the character to_string_lossy puts in
\* the place of such a byte.
InvalidBytes == {"#", "%"}

RECURSIVE ToStringLossyFrom(_, _)
ToStringLossyFrom(name, i) ==
    IF i > Len(name) THEN ""
    ELSE (IF SubSeq(name, i, i) \in InvalidBytes THEN "?" ELSE SubSeq(name, i, i))
            \o ToStringLossyFrom(name, i + 1)

\* file_name.to_string_lossy().to_string()
ToStringLossy(name) == ToStringLossyFrom(name, 1)

\* get_jar_files, given what read_dir answered
get_jar_files(listing) ==
    IF ~listing.ok THEN listing
    ELSE Ok([i \in 1..Len(SelectSeq(listing.val, IsJar)) |->
                ToStringLossy(SelectSeq(listing.val, IsJar)[i])])

\* a comparison of the versions that forgets the loader family
full_match_version_only(identity, mod_entry) ==
    IF identity.detected_version.some
    THEN identity.detected_version.val = mod_entry.mod_version
    ELSE FALSE

\* the comparison of a detected identity with its registry entry
full_match_of(identity, mod_entry) ==
    IF identity.detected_version.some
    THEN /\ identity.detected_version.val = mod_entry.mod_version
         /\ identity.detected_type = mod_entry.mod_type
    ELSE FALSE

\* the record pushed for a jar that gave an identity
ScanResult(jar_name, identity, module) ==
    LET known == identity.mod_id \in DOMAIN module.mods IN
    [jar_name |-> jar_name,
     mod_id |-> identity.mod_id,
     detected_type |-> identity.detected_type,
     detected_version |-> identity.detected_version,
     module_tag |-> IF known THEN Some(module.mods[identity.mod_id].mod_tag) ELSE NoneOpt,
     module_type |-> IF known THEN Some(module.mods[identity.mod_id].mod_type) ELSE NoneOpt,
     module_version |->
         IF known THEN Some(module.mods[identity.mod_id].mod_version) ELSE NoneOpt,
     full_match |->
         IF known THEN full_match_of(identity, module.mods[identity.mod_id]) ELSE FALSE]

Insert(map, key, value) == (key :> value) @@ map

\* a loop that maps a jar only when the module holds its identifier
RECURSIVE ScanFromOnlyListed(_, _, _, _, _, _, _)
ScanFromOnlyListed(fs, directory, module, jar_list, i, scan_results, jar_to_modid) ==
    IF i > Len(jar_list)
    THEN Ok([scan_results |-> scan_results, jar_to_modid |-> jar_to_modid])
    ELSE
    LET jar_name == jar_list[i]
        got == Inspect(fs, <<directory, jar_name>>).res
    IN
    IF ~got.ok THEN got
    ELSE IF got.val.some
    THEN ScanFromOnlyListed(fs, directory, module, jar_list, i + 1,
                  Append(scan_results, ScanResult(jar_name, got.val.val, module)),
                  IF got.val.val.mod_id \in DOMAIN module.mods
                  THEN Insert(jar_to_modid, jar_name, got.val.val.mod_id)
                  ELSE jar_to_modid)
    ELSE ScanFromOnlyListed(fs, directory, module, jar_list, i + 1,
                            scan_results, jar_to_modid)

\* the loop of scan_directory from jar i on, with what it has gathered
RECURSIVE ScanFrom(_, _, _, _, _, _, _)
ScanFrom(fs, directory, module, jar_list, i, scan_results, jar_to_modid) ==
    IF i > Len(jar_list)
    THEN Ok([scan_results |-> scan_results, jar_to_modid |-> jar_to_modid])
    ELSE
    LET jar_name == jar_list[i]
        got == get_mod_id_and_type(fs, <<directory, jar_name>>)
    IN
    IF ~got.ok THEN got
    ELSE IF got.val.some
    THEN ScanFrom(fs, directory, module, jar_list, i + 1,
                  Append(scan_results, ScanResult(jar_name, got.val.val, module)),
                  Insert(jar_to_modid, jar_name, got.val.val.mod_id))
    ELSE ScanFrom(fs, directory, module, jar_list, i + 1, scan_results, jar_to_modid)

\* a count of every record
CountEveryRecord(scan_results) == Len(scan_results)

CountFullMatch(scan_results) ==
    Cardinality({i \in 1..Len(scan_results) : scan_results[i].full_match})

ScanSummary(jar_count, identified_count, full_match_count) ==
    [jar_count |-> jar_count, identified_count |-> identified_count,
     full_match_count |-> full_match_count]

\* scan_directory, given what read_dir answered
scan_directory(fs, directory, module, listing) ==
    LET jar_list == get_jar_files(listing) IN
    IF ~jar_list.ok THEN jar_list
    ELSE
    LET looped == ScanFrom(fs, directory, module, jar_list.val, 1, <<>>, <<>>) IN
    IF ~looped.ok THEN looped
    ELSE Ok([scan_results |-> looped.val.scan_results,
             summary |-> ScanSummary(Len(jar_list.val),
                                     Len(looped.val.scan_results),
                                     CountFullMatch(looped.val.scan_results)),
             jar_to_modid |-> looped.val.jar_to_modid])

(***************************************************************************)
(* The directories scanned: "mods" holds up to two candidate jars and a    *)
(* file that is no candidate; the modules hold entries for "create" and    *)
(* "jei", never for "ghost".                                               *)
(***************************************************************************)
FabricJar(id, version) ==
    Zip(<<Entry("pack.png", Blob),
          Entry("fabric.mod.json", Text("json", "", Obj([id |-> Str(id), version |-> version])))>>)
TomlJar(text, id, version) ==
    Zip(<<Entry("META-INF/mods.toml",
                Text("toml", text, Obj([mods |-> Arr(<<ModTable(id, version)>>)])))>>)

ScanArchives ==
    { FabricJar("create", Str("0.5.8")),
      FabricJar("create", Str("0.5.9")),
      FabricJar("ghost", Str("0.5.8")),
      Zip(<<Entry("fabric.mod.json", Text("json", "", Obj([id |-> Str("create")])))>>),
      TomlJar("modLoader javafml", "jei", Str("0.5.8")),
      TomlJar("loader neoforge", "jei", Str("0.5.8")),
      Zip(<<Entry("pack.png", Blob), Entry("quilt.mod.json", Binary)>>),
      Zip(<<Entry("mcmod.info", Text("json", "", Obj([modList |-> Arr(<<>>)])))>>),
      Zip(<<Entry("fabric.mod.json", Text("garbage", "", Str("")))>>),
      Junk }

ScanJars == {"a.jar", "b.jar"}
ScanOthers == {"c.JAR"}

\* the files of directory dir: some of `names`, each with one of `contents`
FilesOf(dir, names, contents) ==
    UNION {[{<<dir, n>> : n \in present} -> contents] : present \in SUBSET names}

ScanFiles ==
    {jars @@ others : jars \in FilesOf("mods", ScanJars, ScanArchives),
                      others \in FilesOf("mods", ScanOthers, {FabricJar("create", Str("0.5.8"))})}

CreateEntries ==
    {Mod(v, tag, type) : v \in {"0.5.8", "0.5.9"}, tag \in {"Client", "Server"},
                         type \in {"Fabric", "Forge"}}
        \cup {Mod("0.5.8", "Client", "Quilt")}
JeiEntries ==
    {Mod("0.5.8", "Both", "Forge"), Mod("0.5.8", "Unknown", "NeoForge"),
     Mod("0.5.8", "Both", "Unknown")}

Module(mods) == [module_name |-> "pack", mods |-> mods]

ScanModules ==
    {Module(c @@ j) :
        c \in {<<>>} \cup {"create" :> m : m \in CreateEntries},
        j \in {<<>>} \cup {"jei" :> m : m \in JeiEntries}}

ScanDirectories == {"mods", "nowhere"}

InitScan ==
    /\ files \in ScanFiles
    /\ dirs = {"mods"}
    /\ locked = {}
    /\ call = Idle
    /\ state = NoApp

CallScan ==
    /\ call = Idle
    /\ \E directory \in ScanDirectories, module \in ScanModules :
         \E listing \in ReadDir(files, dirs, directory) :
            call' = [fn |-> "scan_directory", directory |-> directory,
                     module |-> module, listing |-> listing,
                     out |-> scan_directory(files, directory, module, listing)]
    /\ UNCHANGED <<files, dirs, locked, state>>

NextScan == CallScan

SpecScan == InitScan /\ [][NextScan]_vars

(***************************************************************************)
(* Claims about scan_directory.                                            *)
(***************************************************************************)
ScanOk == call.fn = "scan_directory" /\ call.out.ok
Scanned == call.out.val
Candidates(fs, dir) == {n \in NamesIn(fs, dir) : IsJar(n)}
Identified(fs, dir) ==
    {n \in Candidates(fs, dir) :
        /\ get_mod_id_and_type(fs, <<dir, n>>).ok
        /\ get_mod_id_and_type(fs, <<dir, n>>).val.some}
Records == {Scanned.scan_results[i] : i \in 1..Len(Scanned.scan_results)}
FullMatches(out) == [i \in 1..Len(out.scan_results) |-> out.scan_results[i].full_match]

Retag(module, tag) ==
    [module EXCEPT !.mods = [id \in DOMAIN module.mods |->
                                [module.mods[id] EXCEPT !.mod_tag = tag]]]

\* C1: every record of a scan carries what the inspector detected in its jar,
\* and its full_match is true exactly when the detected id is a key of the
\* registry, a version was detected, that version equals the entry's
\* mod_version and the detected loader family equals the entry's mod_type;
\* with the id unknown the matched fields are absent and full_match is false;
\* whatever tags the registry holds, the full_match values are the same.
C1_FullMatchIff ==
    ScanOk =>
        /\ \A r \in Records :
             LET mods == call.module.mods IN
             /\ get_mod_id_and_type(files, <<call.directory, r.jar_name>>)
                    = Ok(Some(Identity(r.mod_id, r.detected_type, r.detected_version)))
             /\ r.full_match <=>
                    /\ r.mod_id \in DOMAIN mods
                    /\ r.detected_version.some
                    /\ r.detected_version.val = mods[r.mod_id].mod_version
                    /\ r.detected_type = mods[r.mod_id].mod_type
             /\ r.mod_id \notin DOMAIN mods =>
                    /\ r.module_tag = NoneOpt
                    /\ r.module_type = NoneOpt
                    /\ r.module_version = NoneOpt
                    /\ ~r.full_match
             /\ r.mod_id \in DOMAIN mods =>
                    /\ r.module_tag = Some(mods[r.mod_id].mod_tag)
                    /\ r.module_type = Some(mods[r.mod_id].mod_type)
                    /\ r.module_version = Some(mods[r.mod_id].mod_version)
        /\ \A tag \in DefaultTags :
             LET retagged == scan_directory(files, call.directory,
                                            Retag(call.module, tag), call.listing)
             IN retagged.ok /\ FullMatches(retagged.val) = FullMatches(Scanned)

\* a scan with a full match, a version mismatch on a known id, and an unknown id
C1_Witness ==
    /\ ScanOk
    /\ \E r \in Records : r.full_match
    /\ \E r \in Records : r.module_version.some /\ r.detected_version.some
                          /\ r.module_version # r.detected_version /\ ~r.full_match
                          /\ r.module_type = Some(r.detected_type)

NoManifestJars(fs, dir) ==
    {n \in Candidates(fs, dir) :
        /\ fs[<<dir, n>>].k = "zip"
        /\ \A i \in 1..Len(fs[<<dir, n>>].entries) :
              /\ fs[<<dir, n>>].entries[i].data.k # "corrupt"
              /\ ~IsManifestName(fs[<<dir, n>>].entries[i].name)}

ListingWithout(listing, n) ==
    IF listing.ok THEN Ok(SelectSeq(listing.val, LAMBDA x : x # n)) ELSE listing

\* the scan of the same directory with jar n taken out of it
ScanWithout(n) ==
    scan_directory(Without(files, <<call.directory, n>>), call.directory,
                   call.module, ListingWithout(call.listing, n))

DetectedTypes == {"Forge", "NeoForge", "Fabric"}

\* C26: every record of a scan carries a detected loader family that is
\* Forge, NeoForge or Fabric, and a record whose identifier maps to a registry
\* entry of family Quilt or Unknown has full_match false, whatever the
\* versions.
C26_NeverQuiltNorUnknown ==
    ScanOk =>
        \A r \in Records :
            /\ r.detected_type \in DetectedTypes
            /\ r.module_type \in {Some("Quilt"), Some("Unknown")} => ~r.full_match

\* a scan of two jars whose detected versions are those of their registry
\* entries, one entry of family Quilt and one of family Unknown
C26_Witness ==
    /\ ScanOk
    /\ \E r \in Records :
          /\ r.module_type = Some("Quilt")
          /\ r.detected_version = r.module_version
    /\ \E r \in Records :
          /\ r.module_type = Some("Unknown")
          /\ r.detected_version = r.module_version

(***************************************************************************)
(* The filesystem calls of the executors.  A world is the files, the       *)
(* directories and the locked paths; each call gives [ok, w]: whether it   *)
(* succeeded and the world after it.                                       *)
(***************************************************************************)
World(fs, ds, lk) == [files |-> fs, dirs |-> ds, locked |-> lk]

\* the volume a directory is on: a rename across volumes fails
Volume(dir) == IF dir = "usb" THEN "removable" ELSE "system"

\* the directories that cannot be created
Uncreatable == {"denied", "denied/out"}

Done(w) == [ok |-> TRUE, w |-> w]
Failed(w) == [ok |-> FALSE, w |-> w]

Put(fs, path, content) == (path :> content) @@ fs

\* Path::is_file
IsFile(w, path) == path \in DOMAIN w.files

\* fs::File::create: the file is created or truncated, empty
FileCreate(w, path, empty) ==
    IF \/ path[1] \notin w.dirs \/ path \in w.locked
       \/ (path[1] = "." /\ path[2] \in w.dirs)     \* the path of a directory
    THEN Failed(w)
    ELSE Done([w EXCEPT !.files = Put(w.files, path, empty)])

\* fs::remove_file
RemoveFile(w, path) ==
    IF ~IsFile(w, path) \/ path \in w.locked THEN Failed(w)
    ELSE Done([w EXCEPT !.files = Without(w.files, path)])

\* fs::rename: replaces the file at dst; onto itself it changes nothing
Rename(w, src, dst) ==
    IF \/ ~IsFile(w, src) \/ src \in w.locked \/ dst \in w.locked
       \/ dst[1] \notin w.dirs \/ Volume(src[1]) # Volume(dst[1])
    THEN Failed(w)
    ELSE Done([w EXCEPT !.files = Put(Without(w.files, src), dst, w.files[src])])

Truncated == [k |-> "empty"]

\* fs::copy: opens src, creates or truncates dst, then copies what src holds
Copy(w, src, dst) ==
    IF ~IsFile(w, src) \/ dst \in w.locked \/ dst[1] \notin w.dirs THEN Failed(w)
    ELSE Done([w EXCEPT !.files =
                  Put(w.files, dst, IF src = dst THEN Truncated ELSE w.files[src])])

\* fs::create_dir_all
CreateDirAll(w, dir) ==
    IF dir \in Uncreatable \/ <<".", dir>> \in DOMAIN w.files THEN Failed(w)
    ELSE Done([w EXCEPT !.dirs = w.dirs \cup {dir}])

(***************************************************************************)
(* The order of a BTreeMap<String, _>: strings by their bytes.             *)
(***************************************************************************)
Byte(c) ==
    CASE c = "." -> 46 [] c = "J" -> 74 [] c = "a" -> 97 [] c = "b" -> 98
      [] c = "c" -> 99 [] c = "j" -> 106 [] c = "r" -> 114 [] c = "?" -> 239
      [] OTHER -> 120

RECURSIVE StrLessFrom(_, _, _)
StrLessFrom(a, b, i) ==
    IF i > Len(b) THEN FALSE
    ELSE IF i > Len(a) THEN TRUE
    ELSE IF Byte(SubSeq(a, i, i)) # Byte(SubSeq(b, i, i))
         THEN Byte(SubSeq(a, i, i)) < Byte(SubSeq(b, i, i))
    ELSE StrLessFrom(a, b, i + 1)

StrLess(a, b) == StrLessFrom(a, b, 1)

\* the keys of a map in ascending order
RECURSIVE SortedKeysOf(_)
SortedKeysOf(keys) ==
    IF keys = {} THEN <<>>
    ELSE LET least == CHOOSE x \in keys : \A y \in keys \ {x} : StrLess(x, y)
         IN <<least>> \o SortedKeysOf(keys \ {least})

\* the keys of a map in descending order
RECURSIVE DescendingKeysOf(_)
DescendingKeysOf(keys) ==
    IF keys = {} THEN <<>>
    ELSE LET greatest == CHOOSE x \in keys : \A y \in keys \ {x} : StrLess(y, x)
         IN <<greatest>> \o DescendingKeysOf(keys \ {greatest})

KeysDescending(map) == DescendingKeysOf(DOMAIN map)

\* for (jar, modid) in jar_to_modid
Keys(map) == SortedKeysOf(DOMAIN map)

(***************************************************************************)
(* The four executors, zip_files_with_tag, delete_files_with_tag,          *)
(* write_names_with_tag and move_files_with_tag, one filesystem call at a  *)
(* time.  An execution c holds the arguments, the keys of jar_to_modid in  *)
(* iteration order, the index i of the key the loop is at, count, where    *)
(* the code is (pc), the result (out) once pc is "done", and the files as  *)
(* they were when the call began (pre).                                    *)
(***************************************************************************)
Executors == {"zip_files_with_tag", "delete_files_with_tag",
              "write_names_with_tag", "move_files_with_tag"}

\* a filter that forgets the tag
HasTagAnyTag(jar_to_modid, module, tag, jar) ==
    jar_to_modid[jar] \in DOMAIN module.mods

\* if let Some(mod_entry) = module.mods.get(modid) { if mod_entry.mod_tag == tag
HasTag(jar_to_modid, module, tag, jar) ==
    IF jar_to_modid[jar] \in DOMAIN module.mods
    THEN module.mods[jar_to_modid[jar]].mod_tag = tag
    ELSE FALSE

Begin(fn, dir, jar_to_modid, module, tag, target, w) ==
    [fn |-> fn, dir |-> dir, jar_to_modid |-> jar_to_modid, module |-> module,
     tag |-> tag, target |-> target, keys |-> Keys(jar_to_modid), i |-> 1,
     count |-> 0, pc |-> "open", out |-> NoneOpt, pre |-> w.files]

Return(c, w, out) == [c |-> [c EXCEPT !.pc = "done", !.out = out], w |-> w]
Goto(c, w, pc) == [c |-> [c EXCEPT !.pc = pc], w |-> w]
\* count += 1, and on to the next key
Counted(c, w) ==
    [c |-> [c EXCEPT !.pc = "check", !.count = c.count + 1, !.i = c.i + 1], w |-> w]

EmptyZip == [k |-> "zip", entries |-> <<>>, cd |-> FALSE]
EmptyText == [k |-> "lines", lines |-> <<>>]

\* what precedes the loop: File::create of the output, create_dir_all of the
\* destination, nothing for delete
StepOpen(c, w) ==
    LET did == CASE c.fn = "zip_files_with_tag" -> FileCreate(w, c.target, EmptyZip)
                 [] c.fn = "write_names_with_tag" -> FileCreate(w, c.target, EmptyText)
                 [] c.fn = "move_files_with_tag" -> CreateDirAll(w, c.target)
                 [] OTHER -> Done(w)
    IN IF did.ok THEN Goto(c, did.w, "check") ELSE Return(c, did.w, Err("io"))

\* a loop that acts on every jar with the tag, on disk or not
StepCheckWithoutIsFile(c, w) ==
    IF c.i > Len(c.keys) THEN Goto(c, w, "finish")
    ELSE IF HasTag(c.jar_to_modid, c.module, c.tag, c.keys[c.i])
         THEN Goto(c, w, "act")
    ELSE [c |-> [c EXCEPT !.i = c.i + 1], w |-> w]

\* the head of the loop body: the filter on the tag, then path.is_file()
StepCheck(c, w) ==
    IF c.i > Len(c.keys) THEN Goto(c, w, "finish")
    ELSE IF /\ HasTag(c.jar_to_modid, c.module, c.tag, c.keys[c.i])
            /\ IsFile(w, <<c.dir, c.keys[c.i]>>)
         THEN Goto(c, w, "act")
    ELSE [c |-> [c EXCEPT !.i = c.i + 1], w |-> w]

\* zip: open and read the jar, then start_file and write_all into the output
ActZip(c, w) ==
    LET path == <<c.dir, c.keys[c.i]>> IN
    IF ~IsFile(w, path) THEN Return(c, w, Err("io"))
    ELSE LET buffer == w.files[path]
             output == FileAt(w.files, c.target)
         IN Counted(c, [w EXCEPT !.files =
                Put(w.files, c.target,
                    [output EXCEPT !.entries = Append(output.entries,
                                                      Entry(c.keys[c.i], buffer))])])

\* a delete that removes the file and forgets to count it
ActDeleteUncounted(c, w) ==
    LET did == RemoveFile(w, <<c.dir, c.keys[c.i]>>) IN
    IF did.ok THEN [c |-> [c EXCEPT !.pc = "check", !.i = c.i + 1], w |-> did.w]
    ELSE Return(c, did.w, Err("io"))

\* a delete that counts the file and leaves it where it is
ActDeleteKeepingFile(c, w) == Counted(c, w)

\* a delete that puts back what it removed when a removal fails
ActDeleteRollingBack(c, w) ==
    LET did == RemoveFile(w, <<c.dir, c.keys[c.i]>>) IN
    IF did.ok THEN Counted(c, did.w)
    ELSE Return(c, [did.w EXCEPT !.files = c.pre], Err("io"))

\* delete: fs::remove_file(path)?
ActDelete(c, w) ==
    LET did == RemoveFile(w, <<c.dir, c.keys[c.i]>>) IN
    IF did.ok THEN Counted(c, did.w) ELSE Return(c, did.w, Err("io"))

\* write names: writeln!(file, "{}", jar)?
ActWrite(c, w) ==
    LET output == FileAt(w.files, c.target) IN
    Counted(c, [w EXCEPT !.files =
        Put(w.files, c.target,
            [output EXCEPT !.lines = Append(output.lines, c.keys[c.i])])])

\* move: fs::rename(&src, &dst), and on its failure on to fs::copy
ActMove(c, w) ==
    LET did == Rename(w, <<c.dir, c.keys[c.i]>>, <<c.target, c.keys[c.i]>>) IN
    IF did.ok THEN Counted(c, did.w) ELSE Goto(c, w, "copy")

\* a fallback that gives up the source when the copy fails
StepCopyOrDrop(c, w) ==
    LET did == Copy(w, <<c.dir, c.keys[c.i]>>, <<c.target, c.keys[c.i]>>) IN
    IF did.ok THEN Goto(c, did.w, "remove")
    ELSE Return(c, [did.w EXCEPT !.files = Without(did.w.files, <<c.dir, c.keys[c.i]>>)],
                Err("io"))

\* move, after a failed rename: fs::copy(&src, &dst)?
StepCopy(c, w) ==
    LET did == Copy(w, <<c.dir, c.keys[c.i]>>, <<c.target, c.keys[c.i]>>) IN
    IF did.ok THEN Goto(c, did.w, "remove") ELSE Return(c, did.w, Err("io"))

\* a move that copies and leaves the source behind
StepRemoveKeepsSource(c, w) == Counted(c, w)

\* move, after the copy: fs::remove_file(&src)?
StepRemove(c, w) ==
    LET did == RemoveFile(w, <<c.dir, c.keys[c.i]>>) IN
    IF did.ok THEN Counted(c, did.w) ELSE Return(c, did.w, Err("io"))

StepAct(c, w) ==
    CASE c.fn = "zip_files_with_tag" -> ActZip(c, w)
      [] c.fn = "delete_files_with_tag" -> ActDelete(c, w)
      [] c.fn = "write_names_with_tag" -> ActWrite(c, w)
      [] OTHER -> ActMove(c, w)

\* after the loop: zip.finish()? writes the central directory; Ok(count)
StepFinish(c, w) ==
    IF c.fn = "zip_files_with_tag"
    THEN LET output == FileAt(w.files, c.target) IN
         Return(c, [w EXCEPT !.files = Put(w.files, c.target, [output EXCEPT !.cd = TRUE])],
                Ok(c.count))
    ELSE Return(c, w, Ok(c.count))

Step(c, w) ==
    CASE c.pc = "open" -> StepOpen(c, w)
      [] c.pc = "check" -> StepCheck(c, w)
      [] c.pc = "act" -> StepAct(c, w)
      [] c.pc = "copy" -> StepCopy(c, w)
      [] c.pc = "remove" -> StepRemove(c, w)
      [] OTHER -> StepFinish(c, w)

\* a whole call, nothing else touching the files meanwhile
RECURSIVE Run(_, _)
Run(c, w) == IF c.pc = "done" THEN [c |-> c, w |-> w] ELSE Run(Step(c, w).c, Step(c, w).w)

(***************************************************************************)
(* The executors are tried on a directory "mods" of up to three jars, a    *)
(* mapping that may name jars that are gone, and targets in "out", in      *)
(* "mods" itself, on another volume ("usb"), in a directory to create      *)
(* ("new") and in places that cannot be written; "out" and "usb" hold an   *)
(* older b.jar.                                                            *)
(***************************************************************************)
Jars == {"a.jar", "b.jar", "c.jar"}

JarBytes(jar) ==
    CASE jar = "a.jar" -> FabricJar("create", Str("0.5.8"))
      [] jar = "b.jar" -> TomlJar("modLoader javafml", "jei", Str("0.5.8"))
      [] OTHER -> FabricJar("ghost", Str("0.5.8"))

OldJar == FabricJar("create", Str("0.5.9"))

ExecFiles ==
    {[p \in {<<"mods", n>> : n \in present \cup {"c.jar"}} |-> JarBytes(p[2])]
        @@ (<<"out", "b.jar">> :> OldJar) @@ (<<"usb", "b.jar">> :> OldJar) : present \in SUBSET {"a.jar", "b.jar"}}

ExecMappings ==
    {a @@ b @@ c :
        a \in {<<>>} \cup {"a.jar" :> id : id \in {"create", "jei", "ghost"}},
        b \in {<<>>} \cup {"b.jar" :> id : id \in {"create", "jei"}},
        c \in {<<>>} \cup {"c.jar" :> id : id \in {"create"}}}

ExecModules ==
    { Module("create" :> Mod("0.5.8", "Client", "Fabric")
                @@ "jei" :> Mod("0.5.8", "Server", "Forge")),
      Module("create" :> Mod("0.5.8", "Unknown", "Fabric")) }

ExecLocked == {{}, {<<"mods", "b.jar">>}, {<<"out", "b.jar">>}}

NoTarget == <<>>

ExecTargets(fn) ==
    CASE fn = "zip_files_with_tag" ->
            {<<"out", "client.zip">>, <<"mods", "a.jar">>, <<"nowhere", "client.zip">>}
      [] fn = "write_names_with_tag" ->
            {<<"out", "names.txt">>, <<"mods", "b.jar">>, <<"nowhere", "names.txt">>}
      [] fn = "move_files_with_tag" -> {"out", "new", "usb", "mods", "denied"}
      [] OTHER -> {NoTarget}

InitExec ==
    /\ files \in ExecFiles
    /\ dirs = {"mods", "out", "usb"}
    /\ locked \in ExecLocked
    /\ \E fn \in Executors, jar_to_modid \in ExecMappings, module \in ExecModules,
          tag \in DefaultTags :
         \E target \in ExecTargets(fn) :
            call = Begin(fn, "mods", jar_to_modid, module, tag, target,
                         World(files, dirs, locked))
    /\ state = NoApp

Executing == call.fn \in Executors
Here == World(files, dirs, locked)

\* the world and the execution become what a step gave
Becomes(stepped) ==
    /\ call' = stepped.c
    /\ files' = stepped.w.files
    /\ dirs' = stepped.w.dirs
    /\ UNCHANGED <<locked, state>>

Open ==
    /\ Executing /\ call.pc = "open"
    /\ Becomes(StepOpen(call, Here))

Check ==
    /\ Executing /\ call.pc = "check"
    /\ Becomes(StepCheck(call, Here))

Act ==
    /\ Executing /\ call.pc = "act"
    /\ Becomes(StepAct(call, Here))

CopyAfterRename ==
    /\ Executing /\ call.pc = "copy"
    /\ Becomes(StepCopy(call, Here))

RemoveAfterCopy ==
    /\ Executing /\ call.pc = "remove"
    /\ Becomes(StepRemove(call, Here))

Finish ==
    /\ Executing /\ call.pc = "finish"
    /\ Becomes(StepFinish(call, Here))

NextExec == Open \/ Check \/ Act \/ CopyAfterRename \/ RemoveAfterCopy \/ Finish

SpecExec == InitExec /\ [][NextExec]_vars

(***************************************************************************)
(* Claims about the executors.                                             *)
(***************************************************************************)
\* the jars the common filter lets through: a key of the mapping whose
\* identifier is a key of the registry with the requested tag
Selected ==
    {jar \in DOMAIN call.jar_to_modid :
        /\ call.jar_to_modid[jar] \in DOMAIN call.module.mods
        /\ call.module.mods[call.jar_to_modid[jar]].mod_tag = call.tag}

\* the jars of the mapping whose identifier the registry does not hold
Unlisted ==
    {jar \in DOMAIN call.jar_to_modid :
        call.jar_to_modid[jar] \notin DOMAIN call.module.mods}

Returned(fn) == call.fn = fn /\ call.pc = "done"
ReturnedOk(fn) == Returned(fn) /\ call.out.ok
\* the output file stands: it was created and the call has not failed
OutputOpen(fn) == call.fn = fn /\ call.pc # "open" /\ ~(call.pc = "done" /\ ~call.out.ok)

Changed == {p \in DOMAIN files \cup DOMAIN call.pre : FileAt(files, p) # FileAt(call.pre, p)}
NamesOfEntries(es) == {es[i].name : i \in 1..Len(es)}
Range(xs) == {xs[i] : i \in 1..Len(xs)}

\* C2: at every point of every executor, only jars the filter lets through
\* have been acted upon: the entries of the zip output, the lines of the
\* names output, the files delete has removed and the files move has moved
\* or overwritten are all of selected jars; a jar whose identifier is not in
\* the registry is in none of them, whatever the requested tag.
C2_OnlyTaggedFilesActedUpon ==
    Executing =>
        /\ OutputOpen("zip_files_with_tag") =>
              /\ NamesOfEntries(files[call.target].entries) \subseteq Selected
              /\ NamesOfEntries(files[call.target].entries) \cap Unlisted = {}
        /\ OutputOpen("write_names_with_tag") =>
              /\ Range(files[call.target].lines) \subseteq Selected
              /\ Range(files[call.target].lines) \cap Unlisted = {}
        /\ call.fn = "delete_files_with_tag" =>
              /\ \A p \in Changed : p[1] = call.dir /\ p[2] \in Selected
              /\ \A jar \in Unlisted : <<call.dir, jar>> \notin Changed
        /\ call.fn = "move_files_with_tag" =>
              /\ \A p \in Changed : p[1] \in {call.dir, call.target} /\ p[2] \in Selected
              /\ \A jar \in Unlisted :
                    <<call.dir, jar>> \notin Changed /\ <<call.target, jar>> \notin Changed

\* Unknown is requested, a jar of the mapping with an identifier the registry
\* lacks is on disk beside a jar tagged Unknown, and delete has removed one file
C2_Witness ==
    /\ ReturnedOk("delete_files_with_tag")
    /\ call.tag = "Unknown"
    /\ call.out.val = 1
    /\ \E jar \in Unlisted : <<call.dir, jar>> \in DOMAIN files
    /\ Changed # {}

\* the selected jars that were files of the directory when the call began
SelectedAtCall == {jar \in Selected : <<call.dir, jar>> \in DOMAIN call.pre}

\* C3: when delete_files_with_tag returns Ok(n), nothing else having touched
\* the files, every selected jar that existed when the call began is gone,
\* every other file is as it was, no file has appeared, and n is the number
\* of files removed; the function takes no confirmation and asks for none.
C3_DeleteRemovesAllMatches ==
    ReturnedOk("delete_files_with_tag") =>
        /\ \A jar \in SelectedAtCall : <<call.dir, jar>> \notin DOMAIN files
        /\ \A p \in DOMAIN call.pre :
              (p[1] # call.dir \/ p[2] \notin Selected) => FileAt(files, p) = call.pre[p]
        /\ DOMAIN files \subseteq DOMAIN call.pre
        /\ call.out.val = Cardinality(DOMAIN call.pre \ DOMAIN files)
        /\ call.out.val = Cardinality(SelectedAtCall)

\* two selected jars removed, another jar of the directory left
C3_Witness ==
    /\ ReturnedOk("delete_files_with_tag")
    /\ call.out.val = 2
    /\ \E jar \in Jars : <<call.dir, jar>> \in DOMAIN files

\* the selected jars that are files once the output is created, in the
\* order of the mapping
SelectedOnDisk ==
    SelectSeq(call.keys,
              LAMBDA jar : jar \in Selected
                           /\ (<<call.dir, jar>> \in DOMAIN call.pre
                               \/ <<call.dir, jar>> = call.target))

\* C4: when zip_files_with_tag returns Ok(n), the target holds a finished zip
\* archive, whatever was there before, whose entries are the selected jars
\* on disk, one each under its filename, each with the bytes the jar had when
\* the call began, and n is the number of entries.
C4_ZipHoldsTheOriginals ==
    ReturnedOk("zip_files_with_tag") =>
        /\ call.target \in DOMAIN files
        /\ files[call.target].k = "zip"
        /\ files[call.target].cd
        /\ Len(files[call.target].entries) = Len(SelectedOnDisk)
        /\ \A i \in 1..Len(SelectedOnDisk) :
              /\ files[call.target].entries[i].name = SelectedOnDisk[i]
              /\ files[call.target].entries[i].data
                     = FileAt(call.pre, <<call.dir, SelectedOnDisk[i]>>)
        /\ call.out.val = Len(files[call.target].entries)

\* C6: when write_names_with_tag returns Ok(n), the target holds a text,
\* whatever was there before, whose lines are the selected jars that are on
\* disk once the target is created, each once, ascending by filename, and n
\* is the number of lines.
C6_NamesInMappingOrder ==
    ReturnedOk("write_names_with_tag") =>
        /\ call.target \in DOMAIN files
        /\ files[call.target].k = "lines"
        /\ files[call.target].lines = SelectedOnDisk
        /\ \A i, j \in 1..Len(files[call.target].lines) :
              i < j => StrLess(files[call.target].lines[i], files[call.target].lines[j])
        /\ call.out.val = Len(files[call.target].lines)

\* two names written, a selected jar that is gone left out
C6_Witness ==
    /\ ReturnedOk("write_names_with_tag")
    /\ call.out.val = 2
    /\ files[call.target].lines = <<"a.jar", "c.jar">>
    /\ "b.jar" \in Selected

\* the source and the destination of the jar the loop of move is at
MoveSrc == <<call.dir, call.keys[call.i]>>
MoveDst == <<call.target, call.keys[call.i]>>

\* how move_files_with_tag goes about a file: the copy is reached only when
\* the rename has failed, the removal of the source only when the copy is made
MoveFallsBackInOrder ==
    call.fn = "move_files_with_tag" =>
        /\ call.pc = "copy" => ~Rename(Here, MoveSrc, MoveDst).ok /\ MoveSrc \in DOMAIN files
        /\ call.pc = "remove" =>
              /\ ~Rename([Here EXCEPT !.files = call.pre], MoveSrc, MoveDst).ok
              /\ FileAt(files, MoveDst) = FileAt(call.pre, MoveSrc)
        /\ call.pc # "open" /\ ~(call.pc = "done" /\ ~call.out.ok /\ call.i = 1
                                  /\ call.target \in Uncreatable)
              => call.target \in dirs

\* every selected jar that was in the source is in the destination with the
\* bytes it had, whatever was there before, and n is their number
MovedIntoDestination ==
    /\ call.target \in dirs
    /\ \A jar \in SelectedAtCall :
          FileAt(files, <<call.target, jar>>) = call.pre[<<call.dir, jar>>]
    /\ call.out.val = Cardinality(SelectedAtCall)

\* C5 as stated: the destination directory is created if absent, a file is
\* renamed and on failure of the rename copied and then removed, and when
\* move_files_with_tag returns Ok(n) every selected jar that was in the
\* source is in the destination under its name, a file of that name there
\* overwritten, and is absent from the source, n being their number.
C5_MovedAndAbsentFromSource ==
    /\ MoveFallsBackInOrder
    /\ ReturnedOk("move_files_with_tag") =>
          /\ MovedIntoDestination
          /\ \A jar \in SelectedAtCall : <<call.dir, jar>> \notin DOMAIN files

\* C5 amended: the same, the jars being absent from the source when the
\* destination is another directory than the source; moved into the source
\* directory itself they stay where they are, and are counted.
C5_MovedAndAbsentUnlessSameDirectory ==
    /\ MoveFallsBackInOrder
    /\ ReturnedOk("move_files_with_tag") =>
          /\ MovedIntoDestination
          /\ call.target # call.dir =>
                \A jar \in SelectedAtCall : <<call.dir, jar>> \notin DOMAIN files
          /\ call.target = call.dir =>
                \A jar \in SelectedAtCall : <<call.dir, jar>> \in DOMAIN files

\* two jars moved to another volume, by copy and removal, one of them onto
\* an older file of its name
C5_Witness ==
    /\ ReturnedOk("move_files_with_tag")
    /\ call.target = "usb"
    /\ call.out.val = 2
    /\ <<"usb", "a.jar">> \in DOMAIN files
    /\ <<"mods", "a.jar">> \notin DOMAIN files
    /\ call.pre[<<"usb", "b.jar">>] = OldJar
    /\ files[<<"usb", "b.jar">>] = JarBytes("b.jar")
    /\ <<"mods", "b.jar">> \notin DOMAIN files

\* C22: at every point of zip_files_with_tag and of write_names_with_tag,
\* and so when they return, with a count or with an error, every jar of the
\* mapping that was a file of the directory when the call began is still
\* there with the content it had, whatever the target.
C22_ArchivesUndamaged ==
    call.fn \in {"zip_files_with_tag", "write_names_with_tag"} =>
        \A jar \in DOMAIN call.jar_to_modid :
            <<call.dir, jar>> \in DOMAIN call.pre =>
                FileAt(files, <<call.dir, jar>>) = call.pre[<<call.dir, jar>>]

\* C23: at every point of move_files_with_tag, before and after a rename
\* that fails, a copy that fails and a removal that fails, every selected jar
\* that was a file of the directory when the call began is, with the content
\* it had, at its source path or at its destination path.
C23_MoveLosesNothing ==
    call.fn = "move_files_with_tag" =>
        \A jar \in SelectedAtCall :
            \/ FileAt(files, <<call.dir, jar>>) = call.pre[<<call.dir, jar>>]
            \/ FileAt(files, <<call.target, jar>>) = call.pre[<<call.dir, jar>>]

\* a move into "out" has moved a.jar by rename and has failed on b.jar, which
\* could be neither renamed nor copied onto the b.jar there; b.jar is still
\* in the directory
C23_Witness ==
    /\ Returned("move_files_with_tag")
    /\ ~call.out.ok
    /\ call.target = "out"
    /\ <<"out", "b.jar">> \in locked
    /\ {"a.jar", "b.jar"} \subseteq SelectedAtCall
    /\ call.keys[call.i] = "b.jar"
    /\ <<"mods", "a.jar">> \notin DOMAIN files
    /\ files[<<"out", "a.jar">>] = JarBytes("a.jar")
    /\ files[<<"mods", "b.jar">>] = JarBytes("b.jar")
    /\ files[<<"out", "b.jar">>] = OldJar

\* where a jar stands in the order of the mapping
IndexOf(jar) == CHOOSE i \in 1..Len(call.keys) : call.keys[i] = jar

\* the file the loop is at, and where move puts it
Kth == <<call.dir, call.keys[call.i]>>
KthMoved == <<call.target, call.keys[call.i]>>

\* the file system refuses the removal or the copy the loop is about to make
KthFails ==
    \/ call.fn = "delete_files_with_tag" /\ call.pc = "act" /\ ~RemoveFile(Here, Kth).ok
    \/ call.fn = "move_files_with_tag" /\ call.pc = "copy" /\ ~Copy(Here, Kth, KthMoved).ok
    \/ call.fn = "move_files_with_tag" /\ call.pc = "remove" /\ ~RemoveFile(Here, Kth).ok

\* the selected jars on disk at the call that come before the k-th are
\* deleted, or moved: in the destination with their bytes and, unless the
\* destination is the source directory, out of the source
EarlierStayDone(fs) ==
    \A jar \in SelectedAtCall : IndexOf(jar) < call.i =>
        IF call.fn = "delete_files_with_tag" THEN <<call.dir, jar>> \notin DOMAIN fs
        ELSE /\ FileAt(fs, <<call.target, jar>>) = call.pre[<<call.dir, jar>>]
             /\ call.target # call.dir => <<call.dir, jar>> \notin DOMAIN fs

\* the selected jars that come after the k-th are where and what they were,
\* and nothing of their name has come to the destination
LaterUntouched(fs) ==
    \A jar \in Selected : IndexOf(jar) > call.i =>
        /\ FileAt(fs, <<call.dir, jar>>) = FileAt(call.pre, <<call.dir, jar>>)
        /\ call.fn = "move_files_with_tag" =>
              FileAt(fs, <<call.target, jar>>) = FileAt(call.pre, <<call.target, jar>>)

\* C19: when the removal (Delete) or the copy or the removal (Move) of the
\* k-th selected jar fails, the call ends there with an error and no count,
\* without trying again and without undoing anything: the selected jars
\* before the k-th stay deleted or moved, and those after it are untouched.
C19_NoRollback ==
    [][KthFails =>
          /\ call'.pc = "done"
          /\ call'.out = Err("io")
          /\ call'.i = call.i
          /\ EarlierStayDone(files')
          /\ LaterUntouched(files')]_vars

\* the second of three selected jars could not be removed: the first is
\* gone, the third is still there
C19_Witness ==
    /\ Returned("delete_files_with_tag")
    /\ ~call.out.ok
    /\ call.keys = <<"a.jar", "b.jar", "c.jar">>
    /\ Selected = Jars
    /\ call.i = 2
    /\ <<"mods", "a.jar">> \in DOMAIN call.pre
    /\ <<"mods", "a.jar">> \notin DOMAIN files
    /\ <<"mods", "c.jar">> \in DOMAIN files

(***************************************************************************)
(* A scan followed by one operation on what the scan returned, as the      *)
(* session chains them: the operation gets the directory, the mapping of   *)
(* the scan and the module the scan was given.                             *)
(***************************************************************************)
ChainArchives ==
    { FabricJar("create", Str("0.5.8")),
      FabricJar("ghost", Str("0.5.8")),
      TomlJar("modLoader javafml", "jei", Str("0.5.9")),
      Zip(<<Entry("pack.png", Blob)>>) }

InitChain ==
    /\ files \in FilesOf("mods", ScanJars, ChainArchives)
    /\ dirs = {"mods", "out", "usb"}
    /\ locked = {}
    /\ call = Idle
    /\ state = NoApp

ChainScan ==
    /\ call = Idle
    /\ \E module \in ExecModules :
         \E listing \in ReadDir(files, dirs, "mods") :
            call' = [fn |-> "scan_directory", directory |-> "mods",
                     module |-> module, listing |-> listing,
                     out |-> scan_directory(files, "mods", module, listing)]
    /\ UNCHANGED <<files, dirs, locked, state>>

ChainOperate ==
    /\ ScanOk
    /\ \E fn \in Executors, tag \in DefaultTags :
         \E target \in ExecTargets(fn) :
            LET ran == Run(Begin(fn, call.directory, Scanned.jar_to_modid, call.module,
                                 tag, target, Here), Here)
            IN /\ call' = [fn |-> "scan then operation", scan |-> call, op |-> ran.c]
               /\ files' = ran.w.files
               /\ dirs' = ran.w.dirs
    /\ UNCHANGED <<locked, state>>

NextChain == ChainScan \/ ChainOperate

SpecChain == InitChain /\ [][NextChain]_vars

Operated == call.fn = "scan then operation"

\* the jars a scan identified with an identifier the module does not hold
UnlistedOf(scan) ==
    {jar \in DOMAIN scan.out.val.jar_to_modid :
        scan.out.val.jar_to_modid[jar] \notin DOMAIN scan.module.mods}

OutputOf(op, fs) ==
    IF op.out.ok /\ op.fn = "zip_files_with_tag" THEN NamesOfEntries(fs[op.target].entries)
    ELSE IF op.out.ok /\ op.fn = "write_names_with_tag" THEN Range(fs[op.target].lines)
    ELSE {}

\* C7: after a successful scan the mapping holds exactly the candidate jars
\* the inspector gave an identity for, each with the identifier detected,
\* listed by the registry or not.  A jar whose identifier the registry lacks
\* is in the mapping and in identified_count, has a record without full
\* match, so that full_match_count counts only other records, and after any
\* operation with any tag it is not among the zipped entries or the written
\* names, and delete and move have left it in place.
C7_MappingHoldsEveryIdentified ==
    /\ ScanOk =>
          /\ DOMAIN Scanned.jar_to_modid = Identified(files, call.directory)
          /\ \A jar \in DOMAIN Scanned.jar_to_modid :
                get_mod_id_and_type(files, <<call.directory, jar>>).val.val.mod_id
                    = Scanned.jar_to_modid[jar]
          /\ Scanned.summary.identified_count = Cardinality(Identified(files, call.directory))
          /\ \A jar \in UnlistedOf(call) :
                /\ \E r \in Records : r.jar_name = jar /\ ~r.full_match
                /\ Scanned.summary.full_match_count
                      = Cardinality({i \in 1..Len(Scanned.scan_results) :
                                        /\ Scanned.scan_results[i].full_match
                                        /\ Scanned.scan_results[i].jar_name # jar})
    /\ Operated =>
          \A jar \in UnlistedOf(call.scan) :
             /\ jar \notin OutputOf(call.op, files)
             /\ call.op.fn \in {"delete_files_with_tag", "move_files_with_tag"} =>
                   /\ FileAt(files, <<call.op.dir, jar>>) = call.op.pre[<<call.op.dir, jar>>]
                   /\ FileAt(files, <<call.op.target, jar>>)
                          = FileAt(call.op.pre, <<call.op.target, jar>>)

\* Unknown was requested after a scan that identified a jar the registry
\* lacks beside a jar tagged Unknown, and delete removed only the latter
C7_Witness ==
    /\ Operated
    /\ call.op.fn = "delete_files_with_tag"
    /\ call.op.tag = "Unknown"
    /\ call.op.out = Ok(1)
    /\ UnlistedOf(call.scan) # {}
    /\ call.scan.out.val.summary.identified_count = 2
    /\ call.scan.out.val.summary.full_match_count = 1

(***************************************************************************)
(* The session: the LodestoneApp and update, one action per Message.  A    *)
(* path is a text; PathOf gives the directory and the name it designates,  *)
(* "." being the working directory.                                        *)
(***************************************************************************)
LogCap == 200       \* the entries the log keeps
MaxLog == 4         \* a session is followed until its log holds this many entries
MaxMessages == 3    \* messages followed in a session that starts with a long log

IsWhitespace(c) == c \in {" ", "\t", "\n"}

RECURSIVE TrimStart(_)
TrimStart(s) ==
    IF Len(s) > 0 /\ IsWhitespace(SubSeq(s, 1, 1)) THEN TrimStart(SubSeq(s, 2, Len(s)))
    ELSE s

RECURSIVE TrimEnd(_)
TrimEnd(s) ==
    IF Len(s) > 0 /\ IsWhitespace(SubSeq(s, Len(s), Len(s)))
    THEN TrimEnd(SubSeq(s, 1, Len(s) - 1))
    ELSE s

\* str::trim
Trim(s) == TrimEnd(TrimStart(s))

SlashIndices(path) == {i \in 1..Len(path) : SubSeq(path, i, i) = "/"}
LastSlash(path) == CHOOSE i \in SlashIndices(path) : \A j \in SlashIndices(path) : j <= i

\* the file a path text designates
PathOf(path) ==
    IF SlashIndices(path) = {} THEN <<".", path>>
    ELSE <<SubSeq(path, 1, LastSlash(path) - 1), SubSeq(path, LastSlash(path) + 1, Len(path))>>

\* push_log: an entry equal to the last one is dropped, the oldest entries go
\* when there are more than LogCap
Drain(log) ==
    IF Len(log) > LogCap THEN SubSeq(log, Len(log) - LogCap + 1, Len(log)) ELSE log

\* a push_log that appends whatever the last entry is
push_log_always(log, entry) == Drain(Append(log, entry))

push_log(log, entry) ==
    IF Len(log) > 0 /\ log[Len(log)] = entry THEN log
    ELSE Drain(Append(log, entry))

\* serde: the ModuleJson a JSON document deserialises to
IsText(x) == x.t = "str"
IsNumber(x) == x.t \in {"int", "float"}
HasFields(x, keys) == x.t = "obj" /\ keys \subseteq DOMAIN x.v

IsModJson(x) ==
    /\ HasFields(x, {"mod_version", "mod_tag", "mod_type"})
    /\ IsText(x.v.mod_version)
    /\ IsText(x.v.mod_tag) /\ x.v.mod_tag.v \in DefaultTags
    /\ IsText(x.v.mod_type) /\ x.v.mod_type.v \in ModTypes

IsModuleJson(x) ==
    /\ HasFields(x, {"header", "mods"})
    /\ HasFields(x.v.header, {"module_name", "module_version", "module_author"})
    /\ IsText(x.v.header.v.module_name)
    /\ IsNumber(x.v.header.v.module_version)
    /\ IsText(x.v.header.v.module_author)
    /\ x.v.mods.t = "obj"
    /\ \A id \in DOMAIN x.v.mods.v : IsModJson(x.v.mods.v[id])

\* Module::from_json
from_json(json_data) ==
    [module_name |-> json_data.v.header.v.module_name.v,
     mods |-> [id \in DOMAIN json_data.v.mods.v |->
                  Mod(json_data.v.mods.v[id].v.mod_version.v,
                      json_data.v.mods.v[id].v.mod_tag.v,
                      json_data.v.mods.v[id].v.mod_type.v)]]

\* Module::from_file
from_file(fs, path) ==
    LET file == FileAt(fs, PathOf(path)) IN
    IF file = NoFile THEN Err("io")
    ELSE IF ~ReadToString(file).ok THEN Err("utf8")
    ELSE IF ~ParseAs("json", file).ok \/ ~IsModuleJson(ParseAs("json", file).val)
    THEN Err("parse")
    ELSE Ok(from_json(ParseAs("json", file).val))

IsJson(name) == Extension(name) = Some("json")

\* load_module_list, given what read_dir("modules") answered
load_module_list(fs, listing) ==
    LET test == IF <<".", "test.json">> \in DOMAIN fs THEN <<"test.json">> ELSE <<>>
        found == IF listing.ok
                 THEN [i \in 1..Len(SelectSeq(listing.val, IsJson)) |->
                          "modules/" \o SelectSeq(listing.val, IsJson)[i]]
                 ELSE <<>>
    IN IF test \o found = <<>> THEN <<"test.json">> ELSE test \o found

ScanSummaryDefault == ScanSummary(0, 0, 0)

\* Default for LodestoneApp
Default(modules) ==
    [modules |-> modules,
     selected_module |-> IF modules = <<>> THEN NoneOpt ELSE Some(modules[1]),
     module |-> NoneOpt,
     directory |-> "",
     tag |-> "Client",
     operation |-> "Zip",
     output_path |-> "",
     scan_results |-> <<>>,
     summary |-> ScanSummaryDefault,
     jar_to_modid |-> <<>>,
     log |-> <<"Welcome to Lodestone.">>]

Operations == {"Zip", "Delete", "WriteNames", "Move"}

\* what a handler leaves: the app, the world, and the core function it called
\* with what that returned (NoCall when it called none)
NoCall == [fn |-> "none"]
Handled(st, w, invoked) == [state |-> st, w |-> w, invoked |-> invoked]
Logged(st, entry) == [st EXCEPT !.log = push_log(st.log, entry)]

\* Message::RefreshModules
OnRefreshModules(st, w, listing) ==
    LET modules == load_module_list(w.files, listing)
        first == IF modules = <<>> THEN NoneOpt ELSE Some(modules[1])
        kept == IF st.selected_module.some
                   /\ \E i \in 1..Len(modules) : modules[i] = st.selected_module.val
                THEN st.selected_module ELSE first
    IN Handled(Logged([st EXCEPT !.modules = modules, !.selected_module = kept],
                      "Module list refreshed."), w, NoCall)

\* Message::ModuleSelected
OnModuleSelected(st, w, path) == Handled([st EXCEPT !.selected_module = Some(path)], w, NoCall)

\* a successful load that keeps the scan it found
LoadedKeepingScan(st, w, path, loaded) ==
    IF loaded.ok
    THEN Handled(Logged([st EXCEPT !.module = Some(loaded.val)], "Loaded module: " \o path),
                 w, [fn |-> "from_file", path |-> path, out |-> loaded])
    ELSE Handled(Logged([st EXCEPT !.module = NoneOpt],
                        "Failed to load module " \o path \o ": " \o loaded.err),
                 w, [fn |-> "from_file", path |-> path, out |-> loaded])

\* Message::LoadModule, once Module::from_file has returned
Loaded(st, w, path, loaded) ==
    IF loaded.ok
    THEN Handled(Logged([st EXCEPT !.module = Some(loaded.val),
                                   !.scan_results = <<>>,
                                   !.summary = ScanSummaryDefault,
                                   !.jar_to_modid = <<>>],
                        "Loaded module: " \o path),
                 w, [fn |-> "from_file", path |-> path, out |-> loaded])
    ELSE Handled(Logged([st EXCEPT !.module = NoneOpt],
                        "Failed to load module " \o path \o ": " \o loaded.err),
                 w, [fn |-> "from_file", path |-> path, out |-> loaded])

\* Message::LoadModule
OnLoadModule(st, w) ==
    IF ~st.selected_module.some
    THEN Handled(Logged(st, "Select a module before loading."), w, NoCall)
    ELSE Loaded(st, w, st.selected_module.val, from_file(w.files, st.selected_module.val))

\* Message::DirectoryChanged
OnDirectoryChanged(st, w, value) == Handled([st EXCEPT !.directory = value], w, NoCall)

\* Message::BrowseDirectory, given the folder picked in the dialog, if any
OnBrowseDirectory(st, w, folder) ==
    IF folder.some
    THEN Handled(Logged([st EXCEPT !.directory = folder.val],
                        "Selected directory: " \o folder.val), w, NoCall)
    ELSE Handled(st, w, NoCall)

\* a failed scan that leaves the session without the scan it had
RescannedOrCleared(st, w, listing, scanned) ==
    IF scanned.ok
    THEN Handled(Logged([st EXCEPT !.scan_results = scanned.val.scan_results,
                                   !.summary = scanned.val.summary,
                                   !.jar_to_modid = scanned.val.jar_to_modid],
                        "Scan complete."),
                 w, [fn |-> "scan_directory", directory |-> st.directory,
                     module |-> st.module.val, listing |-> listing, out |-> scanned])
    ELSE Handled(Logged([st EXCEPT !.scan_results = <<>>,
                                   !.summary = ScanSummaryDefault,
                                   !.jar_to_modid = <<>>],
                        "Scan failed: " \o scanned.err),
                 w, [fn |-> "scan_directory", directory |-> st.directory,
                     module |-> st.module.val, listing |-> listing, out |-> scanned])

\* Message::ScanDirectory, once scan_directory has returned
Rescanned(st, w, listing, scanned) ==
    IF scanned.ok
    THEN Handled(Logged([st EXCEPT !.scan_results = scanned.val.scan_results,
                                   !.summary = scanned.val.summary,
                                   !.jar_to_modid = scanned.val.jar_to_modid],
                        "Scan complete: " \o ToString(scanned.val.summary.jar_count)
                           \o " jars, "
                           \o ToString(scanned.val.summary.identified_count)
                           \o " identified, "
                           \o ToString(scanned.val.summary.full_match_count)
                           \o " full matches."),
                 w, [fn |-> "scan_directory", directory |-> st.directory,
                     module |-> st.module.val, listing |-> listing, out |-> scanned])
    ELSE Handled(Logged(st, "Scan failed: " \o scanned.err),
                 w, [fn |-> "scan_directory", directory |-> st.directory,
                     module |-> st.module.val, listing |-> listing, out |-> scanned])

\* a ScanDirectory that does nothing, without a word, when no module is loaded
OnScanDirectorySilent(st, w, listing) ==
    IF ~st.module.some
    THEN Handled(st, w, NoCall)
    ELSE IF Trim(st.directory) = ""
    THEN Handled(Logged(st, "Enter a directory path before scanning."), w, NoCall)
    ELSE Rescanned(st, w, listing,
                   scan_directory(w.files, st.directory, st.module.val, listing))

\* Message::ScanDirectory, given what read_dir answers
OnScanDirectory(st, w, listing) ==
    IF ~st.module.some
    THEN Handled(Logged(st, "Load a module before scanning."), w, NoCall)
    ELSE IF Trim(st.directory) = ""
    THEN Handled(Logged(st, "Enter a directory path before scanning."), w, NoCall)
    ELSE Rescanned(st, w, listing,
                   scan_directory(w.files, st.directory, st.module.val, listing))

\* Message::TagSelected
OnTagSelected(st, w, tag) == Handled([st EXCEPT !.tag = tag], w, NoCall)

\* Message::OperationSelected
\* an OperationSelected that leaves the target text as it is
OnOperationSelectedKeepingTarget(st, w, operation) ==
    Handled([st EXCEPT !.operation = operation], w, NoCall)

OnOperationSelected(st, w, operation) ==
    Handled([st EXCEPT !.operation = operation, !.output_path = ""], w, NoCall)

\* Message::OutputChanged
OnOutputChanged(st, w, value) == Handled([st EXCEPT !.output_path = value], w, NoCall)

\* Path::new(dir): the directory a text names, the working directory when blank
DirOf(dir) == IF dir = "" THEN "." ELSE dir

ExecutorOf(operation) ==
    CASE operation = "Zip" -> "zip_files_with_tag"
      [] operation = "Delete" -> "delete_files_with_tag"
      [] operation = "WriteNames" -> "write_names_with_tag"
      [] OTHER -> "move_files_with_tag"

\* what RunOperation logs when the target text does not let the operation run
Refusal(operation) ==
    CASE operation = "Zip" -> "Provide an output zip filename."
      [] operation = "Delete" -> "Type DELETE in the confirmation box to remove files."
      [] operation = "WriteNames" -> "Provide an output filename."
      [] OTHER -> "Provide a destination directory."

\* what RunOperation logs for Ok(n)
Success(operation, n) ==
    CASE operation = "Zip" -> "Zipped " \o ToString(n) \o " files."
      [] operation = "Delete" -> "Deleted " \o ToString(n) \o " files."
      [] operation = "WriteNames" -> "Wrote " \o ToString(n) \o " names."
      [] OTHER -> "Moved " \o ToString(n) \o " files."

\* what RunOperation logs for Err(e)
Failure(operation, e) ==
    CASE operation = "Zip" -> "Zip error: " \o e
      [] operation = "Delete" -> "Delete error: " \o e
      [] operation = "WriteNames" -> "Write error: " \o e
      [] OTHER -> "Move error: " \o e

\* a test of the target text that lets every text through
TargetAccepted(operation, output_path) == TRUE

\* the test RunOperation makes of the target text before it calls the executor
TargetValid(operation, output_path) ==
    IF operation = "Delete" THEN Trim(output_path) = "DELETE"
    ELSE Trim(output_path) # ""

\* the target RunOperation hands to the executor
TargetOf(operation, output_path) ==
    CASE operation = "Delete" -> NoTarget
      [] operation = "Move" -> Trim(output_path)
      [] OTHER -> PathOf(Trim(output_path))

\* a RunOperation that drops the scan once the executor has returned
RanAndDropped(st, ran) ==
    Handled(Logged([st EXCEPT !.scan_results = <<>>, !.summary = ScanSummaryDefault,
                              !.jar_to_modid = <<>>],
                   IF ran.c.out.ok THEN Success(st.operation, ran.c.out.val)
                   ELSE Failure(st.operation, ran.c.out.err)),
            ran.w, ran.c)

\* Message::RunOperation, once the executor has returned
Ran(st, ran) ==
    Handled(Logged(st, IF ran.c.out.ok THEN Success(st.operation, ran.c.out.val)
                       ELSE Failure(st.operation, ran.c.out.err)),
            ran.w, ran.c)

\* Message::RunOperation
OnRunOperation(st, w) ==
    IF ~st.module.some
    THEN Handled(Logged(st, "Load a module before running an operation."), w, NoCall)
    ELSE IF DOMAIN st.jar_to_modid = {}
    THEN Handled(Logged(st, "Scan a directory before running an operation."), w, NoCall)
    ELSE IF ~TargetValid(st.operation, st.output_path)
    THEN Handled(Logged(st, Refusal(st.operation)), w, NoCall)
    ELSE Ran(st, Run(Begin(ExecutorOf(st.operation), DirOf(Trim(st.directory)),
                           st.jar_to_modid, st.module.val, st.tag,
                           TargetOf(st.operation, st.output_path), w), w))

(***************************************************************************)
(* The sessions followed: the working directory holds test.json, a module  *)
(* that lists "create" for the client and "jei" for the server, and        *)
(* modules/broken.json, which does not deserialise; "mods" holds a jar of  *)
(* each, "bad" a jar beside a file that is no zip container and a jar      *)
(* whose manifest does not parse, "odd" a jar that cannot be removed       *)
(* beside one whose name is not UTF-8; nothing can be written under        *)
(* "denied".                                                               *)
(***************************************************************************)
ModJson(version, tag, type) ==
    Obj([mod_version |-> Str(version), mod_tag |-> Str(tag), mod_type |-> Str(type)])

HeaderJson ==
    Obj([module_name |-> Str("pack"), module_version |-> Float(1, 0),
         module_author |-> Str("nobody")])

TestJson ==
    Text("json", "",
         Obj([header |-> HeaderJson,
              mods |-> Obj([create |-> ModJson("0.5.8", "Client", "Fabric"),
                            jei |-> ModJson("0.5.8", "Server", "Forge")])]))

BrokenJson ==
    Text("json", "",
         Obj([header |-> HeaderJson,
              mods |-> Obj([create |-> ModJson("0.5.8", "client", "Fabric")])]))

SessionFiles ==
    (<<".", "test.json">> :> TestJson)
    @@ (<<"modules", "broken.json">> :> BrokenJson)
    @@ (<<"mods", "a.jar">> :> FabricJar("create", Str("0.5.8")))
    @@ (<<"mods", "b.jar">> :> TomlJar("modLoader javafml", "jei", Str("0.5.9")))
    @@ (<<"bad", "a.jar">> :> FabricJar("create", Str("0.5.8")))
    @@ (<<"bad", "x.jar">> :> Junk)
    @@ (<<"bad", "y.jar">> :> Zip(<<Entry("fabric.mod.json", Text("garbage", "", Str("")))>>))
    @@ (<<"odd", "?.jar">> :> FabricJar("create", Str("0.5.8")))
    @@ (<<"odd", "#.jar">> :> Zip(<<Entry("pack.png", Blob)>>))

SessionDirs == {".", "modules", "mods", "bad", "odd"}

TypedDirectories == {"mods", "bad", "odd"}
PickedFolders == {NoneOpt, Some("mods")}
PickedTags == {"Client", "Server"}
TypedOutputs == {" ", " new ", " DELETE ", "delete", " denied/out "}

\* the order of load, scan and operation so far: what the last attempt to
\* load gave, and whether a scan has succeeded since a successful one
Phase(phase, invoked) ==
    IF invoked.fn = "from_file"
    THEN IF invoked.out.ok THEN "loaded" ELSE "load failed"
    ELSE IF invoked.fn = "scan_directory" /\ invoked.out.ok /\ phase = "loaded"
    THEN "scanned"
    ELSE phase

\* the directory the last successful scan has read, if any
ScannedLast(scanned, invoked) ==
    IF invoked.fn = "scan_directory" /\ invoked.out.ok THEN Some(invoked.directory)
    ELSE scanned

\* the messages of a session
Msg(name, value) == [name |-> name, value |-> value]

\* whether an OutputChanged carrying DELETE has come since the last
\* OperationSelected(Delete)
TypedSince(typed, message) ==
    IF message.name = "OperationSelected" /\ message.value = "Delete" THEN FALSE
    ELSE IF message.name = "OutputChanged" /\ Trim(message.value) = "DELETE" THEN TRUE
    ELSE typed

InitSession ==
    /\ files = SessionFiles
    /\ dirs = SessionDirs
    /\ locked = {<<"odd", "?.jar">>}
    /\ \E listing \in ReadDir(files, dirs, "modules") :
          state = Default(load_module_list(files, listing))
    /\ call = [fn |-> "update", invoked |-> NoCall, phase |-> "no load",
               scanned |-> NoneOpt, typed |-> FALSE, left |-> 0]

\* a session is followed while its log is short, or while messages are left
InSession == call.fn = "update" /\ (Len(state.log) < MaxLog \/ call.left > 0)

\* the session after update has handled a message
Updated(message, handled) ==
    /\ state' = [handled.state EXCEPT !.log = Drain(handled.state.log)]
    /\ files' = handled.w.files
    /\ dirs' = handled.w.dirs
    /\ call' = [call EXCEPT !.invoked = handled.invoked,
                            !.phase = Phase(call.phase, handled.invoked),
                            !.scanned = ScannedLast(call.scanned, handled.invoked),
                            !.typed = TypedSince(call.typed, message),
                            !.left = IF call.left > 0 THEN call.left - 1 ELSE 0]
    /\ UNCHANGED locked

RefreshModules ==
    /\ InSession
    /\ \E listing \in ReadDir(files, dirs, "modules") :
          \E handled \in {OnRefreshModules(state, Here, listing)} :
             Updated(Msg("RefreshModules", ""), handled)

ModuleSelected ==
    /\ InSession
    /\ \E i \in 1..Len(state.modules) :
          \E handled \in {OnModuleSelected(state, Here, state.modules[i])} :
             Updated(Msg("ModuleSelected", state.modules[i]), handled)

LoadModule ==
    /\ InSession
    /\ \E handled \in {OnLoadModule(state, Here)} :
          Updated(Msg("LoadModule", ""), handled)

DirectoryChanged ==
    /\ InSession
    /\ \E value \in TypedDirectories :
          \E handled \in {OnDirectoryChanged(state, Here, value)} :
             Updated(Msg("DirectoryChanged", value), handled)

BrowseDirectory ==
    /\ InSession
    /\ \E folder \in PickedFolders :
          \E handled \in {OnBrowseDirectory(state, Here, folder)} :
             Updated(Msg("BrowseDirectory", ""), handled)

ScanDirectory ==
    /\ InSession
    /\ \E listing \in ReadDir(files, dirs, state.directory) :
          \E handled \in {OnScanDirectory(state, Here, listing)} :
             Updated(Msg("ScanDirectory", ""), handled)

TagSelected ==
    /\ InSession
    /\ \E tag \in PickedTags :
          \E handled \in {OnTagSelected(state, Here, tag)} :
             Updated(Msg("TagSelected", tag), handled)

OperationSelected ==
    /\ InSession
    /\ \E operation \in Operations :
          \E handled \in {OnOperationSelected(state, Here, operation)} :
             Updated(Msg("OperationSelected", operation), handled)

OutputChanged ==
    /\ InSession
    /\ \E value \in TypedOutputs :
          \E handled \in {OnOutputChanged(state, Here, value)} :
             Updated(Msg("OutputChanged", value), handled)

RunOperation ==
    /\ InSession
    /\ \E handled \in {OnRunOperation(state, Here)} :
          Updated(Msg("RunOperation", ""), handled)

Next ==
    \/ RefreshModules \/ ModuleSelected \/ LoadModule \/ DirectoryChanged
    \/ BrowseDirectory \/ ScanDirectory \/ TagSelected \/ OperationSelected
    \/ OutputChanged \/ RunOperation

Spec == InitSession /\ [][Next]_vars

(***************************************************************************)
(* Claims about the session.                                               *)
(***************************************************************************)
Last(log) == log[Len(log)]

\* the scan the session holds
HeldScan(st) ==
    [scan_results |-> st.scan_results, summary |-> st.summary,
     jar_to_modid |-> st.jar_to_modid]

\* the syntax the inspector reads a manifest of this name in
SyntaxOf(name) == IF EndsWith(name, "mods.toml") THEN "toml" ELSE "json"

\* a file that is no zip container, or a zip container whose first entry with
\* a manifest name does not hold a text in the syntax of that manifest
IsBroken(file) ==
    \/ file.k # "zip"
    \/ /\ ManifestIndices(file.entries) # {}
       /\ LET e == file.entries[FirstManifest(file.entries)]
          IN e.data.k # "text" \/ e.data.fmt # SyntaxOf(e.name)

BrokenCandidates(fs, dir) == {n \in Candidates(fs, dir) : IsBroken(fs[<<dir, n>>])}

\* C12: when a ScanDirectory message calls scan_directory for a directory one
\* of whose candidate jars is no zip container or has a manifest that does
\* not parse, the call returns an error and nothing else, whatever the order
\* the jars were read in, and the scan the session held before the message is
\* the scan it holds after it.
C12_FailedScanReturnsNothing ==
    [][(/\ call'.fn = "update"
        /\ call'.invoked.fn = "scan_directory"
        /\ BrokenCandidates(files, state.directory) # {})
       => /\ call'.invoked.directory = state.directory
          /\ call'.invoked.out = Err(call'.invoked.out.err)
          /\ HeldScan(state') = HeldScan(state)
          /\ state'.module = state.module]_vars

\* a scan that failed on its second jar, the first being sound, in a session
\* that holds the two records of an earlier scan
C12_Witness ==
    /\ call.fn = "update"
    /\ call.invoked.fn = "scan_directory"
    /\ call.invoked.directory = "bad"
    /\ call.invoked.listing.val[1] = "a.jar"
    /\ ~call.invoked.out.ok
    /\ Len(state.scan_results) = 2
    /\ state.summary.jar_count = 2
    /\ DOMAIN state.jar_to_modid = {"a.jar", "b.jar"}
    /\ Last(state.log) = "Scan failed: " \o call.invoked.out.err

\* the core function a message called returned an error
CallFailed(c) ==
    /\ c.fn = "update"
    /\ c.invoked.fn \in {"from_file", "scan_directory"} \cup Executors
    /\ ~c.invoked.out.ok

\* C13: a message whose load, scan or operation fails leaves the module and
\* the scan the session held before the message as they were.
C13_FailedCallKeepsSession ==
    [][CallFailed(call')
       => /\ state'.module = state.module
          /\ HeldScan(state') = HeldScan(state)]_vars

\* the message changed nothing but the log, whose last entry is now `entry`,
\* and called no core function
RejectedWith(entry) ==
    /\ call'.invoked = NoCall
    /\ state' = [state EXCEPT !.log = state'.log]
    /\ Last(state'.log) = entry
    /\ files' = files /\ dirs' = dirs

\* C14: a ScanDirectory message while no module is loaded, and a RunOperation
\* message while no module is loaded or while the mapping is empty, calls no
\* core function, leaves the module, the scan and the files as they were, and
\* leaves its rejection as the last entry of the log.
C14_OutOfOrderRejected ==
    [][/\ (~state.module.some /\ ScanDirectory)
             => RejectedWith("Load a module before scanning.")
       /\ (~state.module.some /\ RunOperation)
             => RejectedWith("Load a module before running an operation.")
       /\ (state.module.some /\ DOMAIN state.jar_to_modid = {} /\ RunOperation)
             => RejectedWith("Scan a directory before running an operation.")]_vars

\* an operation asked for with a module and a valid target but no scan, after
\* a scan asked for without a module
C14_Witness ==
    /\ call.fn = "update"
    /\ call.invoked = NoCall
    /\ state.module.some
    /\ DOMAIN state.jar_to_modid = {}
    /\ TargetValid(state.operation, state.output_path)
    /\ Len(state.log) = 4
    /\ state.log[2] = "Load a module before scanning."
    /\ Last(state.log) = "Scan a directory before running an operation."

NoScan == [scan_results |-> <<>>, summary |-> ScanSummaryDefault, jar_to_modid |-> <<>>]

\* C15: an executor is called only when a load has succeeded, a scan has
\* succeeded after it, and no load has been attempted since that scan; and a
\* load that succeeds leaves the session without scan records, with a zero
\* summary and an empty mapping.  What RunOperation asks for before it calls
\* an executor, a module and a mapping that is not empty, is held only in
\* that order of events.
C15_LoadScanOperate ==
    call.fn = "update" =>
        /\ call.invoked.fn \in Executors => call.phase = "scanned"
        /\ (state.module.some /\ DOMAIN state.jar_to_modid # {}) => call.phase = "scanned"
        /\ (call.invoked.fn = "from_file" /\ call.invoked.out.ok)
              => HeldScan(state) = NoScan

\* an operation run on the mapping of a scan made after the load
C15_Witness ==
    /\ call.fn = "update"
    /\ call.invoked.fn \in Executors
    /\ call.invoked.out.ok
    /\ call.invoked.jar_to_modid = state.jar_to_modid
    /\ call.invoked.module = state.module.val
    /\ Len(state.log) = 4
    /\ state.log[2] = "Loaded module: test.json"
    /\ state.log[3] = "Scan complete: 2 jars, 2 identified, 1 full matches."

\* a text with a character that is no whitespace
NonBlank(s) == \E i \in 1..Len(s) : ~IsWhitespace(SubSeq(s, i, i))

\* the word DELETE, with nothing but whitespace before and after it
IsConfirmation(s) ==
    \E i \in 1..Len(s) :
        /\ i + 5 <= Len(s)
        /\ SubSeq(s, i, i + 5) = "DELETE"
        /\ \A k \in (1..(i - 1)) \cup ((i + 6)..Len(s)) : IsWhitespace(SubSeq(s, k, k))

\* the target text lets the operation run
Confirmed(operation, output_path) ==
    IF operation = "Delete" THEN IsConfirmation(output_path) ELSE NonBlank(output_path)

\* C16: RunOperation calls the executor of the selected operation, and only
\* when the target text is not blank for Zip, WriteNames and Move, and is the
\* word DELETE between whitespace for Delete; with a module, a mapping and any
\* other target text it calls no executor, touches no file, and changes
\* nothing in the session but the log, which ends with the refusal.
C16_TargetValidated ==
    [][/\ (call'.fn = "update" /\ call'.invoked.fn \in Executors)
             => /\ call'.invoked.fn = ExecutorOf(state.operation)
                /\ Confirmed(state.operation, state.output_path)
       /\ (/\ state.module.some
           /\ DOMAIN state.jar_to_modid # {}
           /\ ~Confirmed(state.operation, state.output_path)
           /\ RunOperation)
             => RejectedWith(Refusal(state.operation))]_vars

\* Delete refused for a confirmation in lower case, after a scan that found
\* jars to delete
C16_Witness ==
    /\ call.fn = "update"
    /\ call.invoked = NoCall
    /\ state.operation = "Delete"
    /\ state.output_path = "delete"
    /\ state.module.some
    /\ DOMAIN state.jar_to_modid = {"a.jar", "b.jar"}
    /\ files = SessionFiles
    /\ Last(state.log) = "Type DELETE in the confirmation box to remove files."

\* C18: a RunOperation message, refused or run, with success or with failure,
\* changes nothing in the session but the log: the module, the scan records,
\* the summary, the mapping, the directory, the tag, the operation and the
\* target text are after it what they were before it, so that the records
\* of a scan go on listing jars that Delete or Move has taken away.
C18_OperationKeepsSession ==
    [][((call'.fn = "update" /\ call'.invoked.fn \in Executors) \/ RunOperation)
       => state' = [state EXCEPT !.log = state'.log]]_vars

\* a Delete has removed a jar that the scan records and the mapping still list
C18_Witness ==
    /\ call.fn = "update"
    /\ call.invoked.fn = "delete_files_with_tag"
    /\ call.invoked.out = Ok(1)
    /\ <<"mods", "a.jar">> \notin DOMAIN files
    /\ \E i \in 1..Len(state.scan_results) : state.scan_results[i].jar_name = "a.jar"
    /\ "a.jar" \in DOMAIN state.jar_to_modid
    /\ state.summary.jar_count = 2

\* the jar names of the scan records
RecordedJars(st) == {st.scan_results[i].jar_name : i \in 1..Len(st.scan_results)}

\* C20: in every state of a session the three results of the scan agree:
\* identified_count is the number of scan records and the number of keys of
\* the mapping, the jar names of the records are the keys of the mapping,
\* each record's mod_id is what the mapping gives for its jar, and
\* full_match_count <= identified_count <= jar_count.
C20_ScanOutputsConsistent ==
    /\ state.summary.identified_count = Len(state.scan_results)
    /\ state.summary.identified_count = Cardinality(DOMAIN state.jar_to_modid)
    /\ RecordedJars(state) = DOMAIN state.jar_to_modid
    /\ \A i \in 1..Len(state.scan_results) :
          state.jar_to_modid[state.scan_results[i].jar_name] = state.scan_results[i].mod_id
    /\ state.summary.full_match_count <= state.summary.identified_count
    /\ state.summary.identified_count <= state.summary.jar_count

\* C21: whenever RunOperation calls an executor, a scan has succeeded and
\* the directory the executor is given is the directory that the last
\* successful scan read, whatever DirectoryChanged and BrowseDirectory
\* messages have come since.
C21_OperatesOnScannedDirectory ==
    call.invoked.fn \in Executors =>
        /\ call.scanned.some
        /\ call.invoked.dir = call.scanned.val

\* C25: every OperationSelected message leaves the target text empty, and
\* every call of delete_files_with_tag comes after an OutputChanged message
\* that carried "DELETE", up to surrounding whitespace, and that came after
\* the last OperationSelected(Delete); the operation is then Delete and the
\* target text is that confirmation.
C25_DeleteConfirmedAfresh ==
    [][/\ OperationSelected => state'.output_path = ""
       /\ call'.invoked.fn = "delete_files_with_tag" =>
             /\ call.typed
             /\ state.operation = "Delete"
             /\ Trim(state.output_path) = "DELETE"]_vars

\* delete_files_with_tag has been called and has removed a jar, the
\* confirmation having been typed after Delete was selected
C25_Witness ==
    /\ call.invoked.fn = "delete_files_with_tag"
    /\ call.invoked.out = Ok(1)
    /\ call.typed
    /\ state.output_path = " DELETE "

(***************************************************************************)
(* Sessions with a long log: before any module is loaded, ScanDirectory    *)
(* and RunOperation messages in turn have each added their refusal to the  *)
(* log, which now holds LogCap - 1 or LogCap entries; MaxMessages more     *)
(* messages are followed.                                                  *)
(***************************************************************************)
\* the log after the welcome and n refusals
Refusals(n) ==
    [i \in 1..(n + 1) |->
        IF i = 1 THEN "Welcome to Lodestone."
        ELSE IF i % 2 = 0 THEN "Load a module before scanning."
        ELSE "Load a module before running an operation."]

InitLog ==
    /\ files = SessionFiles
    /\ dirs = SessionDirs
    /\ locked = {<<"odd", "?.jar">>}
    /\ \E listing \in ReadDir(files, dirs, "modules"), n \in {LogCap - 2, LogCap - 1} :
          state = [Default(load_module_list(files, listing)) EXCEPT !.log = Refusals(n)]
    /\ call = [fn |-> "update", invoked |-> NoCall, phase |-> "no load",
               scanned |-> NoneOpt, typed |-> FALSE, left |-> MaxMessages]

SpecLog == InitLog /\ [][Next]_vars

\* the log is not empty, holds no more than LogCap entries, and no entry
\* equals the one before it
LogWellFormed ==
    /\ Len(state.log) >= 1
    /\ Len(state.log) <= LogCap
    /\ \A i \in 1..(Len(state.log) - 1) : state.log[i] # state.log[i + 1]

\* a message adds at most one entry, at the end, and when the log is full
\* the entry that goes is the oldest
AppendsDroppingOldest ==
    state'.log # state.log =>
        state'.log = IF Len(state.log) = LogCap
                     THEN Append(Tail(state.log), Last(state'.log))
                     ELSE Append(state.log, Last(state'.log))

\* C27: after any sequence of messages the log of the session is not empty,
\* holds at most 200 entries, the oldest having been dropped first, and has
\* no two equal entries next to each other.
C27_LogBoundedWithoutRepeats == []LogWellFormed /\ [][AppendsDroppingOldest]_vars

\* the log is full, the welcome has been dropped from it, and the last of
\* the messages followed added nothing to it
C27_Witness ==
    /\ Len(state.log) = LogCap
    /\ state.log[1] # "Welcome to Lodestone."
    /\ call.left = 0
    /\ call.invoked = NoCall
    /\ state.log[LogCap] = "Module list refreshed."
    /\ state.log[LogCap - 1] = "Load a module before running an operation."

(***************************************************************************)
(* The executors while something else removes jars from the directory:     *)
(* between any two filesystem calls of an executor a jar of "mods" may     *)
(* vanish.  The execution records each removal (gone): the jar, and where  *)
(* the executor was, pc and i.  Nothing is locked and every target can be  *)
(* written, so that an error can only come from a removal.                 *)
(***************************************************************************)
MaxRemovals == 1    \* jars removed from outside during one execution

RaceMappings ==
    {a @@ b @@ c :
        a \in {<<>>, "a.jar" :> "create"},
        b \in {<<>>, "b.jar" :> "jei"},
        c \in {<<>>, "c.jar" :> "create"}}

RaceTargets(fn) ==
    CASE fn = "zip_files_with_tag" -> {<<"out", "client.zip">>}
      [] fn = "write_names_with_tag" -> {<<"out", "names.txt">>}
      [] fn = "move_files_with_tag" -> {"out", "usb"}
      [] OTHER -> {NoTarget}

InitRace ==
    /\ files \in ExecFiles
    /\ dirs = {"mods", "out", "usb"}
    /\ locked = {}
    /\ \E fn \in Executors, jar_to_modid \in RaceMappings, module \in ExecModules,
          tag \in PickedTags :
         \E target \in RaceTargets(fn) :
            call = Begin(fn, "mods", jar_to_modid, module, tag, target,
                         World(files, dirs, locked)) @@ [gone |-> <<>>]
    /\ state = NoApp

\* a jar of the directory is removed by something else
Vanish ==
    /\ Executing /\ call.pc # "done"
    /\ Len(call.gone) < MaxRemovals
    /\ \E jar \in Jars :
          /\ <<call.dir, jar>> \in DOMAIN files
          /\ files' = Without(files, <<call.dir, jar>>)
          /\ call' = [call EXCEPT !.gone = Append(call.gone,
                                       [jar |-> jar, pc |-> call.pc, i |-> call.i])]
    /\ UNCHANGED <<dirs, locked, state>>

NextRace == Open \/ Check \/ Act \/ CopyAfterRename \/ RemoveAfterCopy \/ Finish \/ Vanish

SpecRace == InitRace /\ [][NextRace]_vars

(***************************************************************************)
(* Claims about the executors beside external removals.                    *)
(***************************************************************************)
Removals == {call.gone[k] : k \in 1..Len(call.gone)}


\* the jar was removed while the executor was between its check of that jar
\* and the end of its action on it
RemovedInTheAct(e) ==
    /\ e.pc \in {"act", "copy", "remove"}
    /\ call.keys[e.i] = e.jar

\* the jar was removed before the executor checked whether it is a file
RemovedBeforeItsCheck(e) ==
    /\ e.jar \in DOMAIN call.jar_to_modid
    /\ \/ e.i < IndexOf(e.jar)
       \/ e.i = IndexOf(e.jar) /\ e.pc \in {"open", "check"}

\* the selected jars that were files when the call began and were not removed
\* before their check
SelectedAndChecked ==
    {jar \in Selected :
        /\ <<call.dir, jar>> \in DOMAIN call.pre
        /\ ~\E e \in Removals : e.jar = jar /\ RemovedBeforeItsCheck(e)}

\* C17 as stated: whenever a selected jar is removed from outside before the
\* executor has finished with it, the executor returns Ok with a count that
\* leaves that jar out.
C17_SkippedWheneverRemoved ==
    (Executing /\ call.pc = "done") =>
        \A e \in Removals :
            (e.jar \in Selected /\ (RemovedBeforeItsCheck(e) \/ RemovedInTheAct(e)))
               => /\ call.out.ok
                  /\ call.out.val = Cardinality(SelectedAndChecked \ {e.jar})

\* C17: an executor whose selected jars are removed from outside only before
\* it checks them returns Ok, and counts the selected jars that were on disk
\* at the call and not so removed; a jar removed between its check and the
\* end of the action on it makes Zip, Delete and Move return an error, and is
\* written and counted by WriteNames.
C17_SkippedWhenRemovedBeforeItsCheck ==
    (Executing /\ call.pc = "done") =>
        IF \E e \in Removals : RemovedInTheAct(e) /\ call.fn # "write_names_with_tag"
        THEN ~call.out.ok
        ELSE /\ call.out.ok
             /\ call.out.val = Cardinality(SelectedAndChecked)

\* a delete of two selected jars on disk, the second removed from outside
\* while the first was being deleted
C17_Witness ==
    /\ ReturnedOk("delete_files_with_tag")
    /\ Cardinality({jar \in Selected : <<call.dir, jar>> \in DOMAIN call.pre}) = 2
    /\ Len(call.gone) = 1
    /\ call.gone[1].jar \in Selected
    /\ call.gone[1].pc = "act"
    /\ call.gone[1].i < IndexOf(call.gone[1].jar)
    /\ call.out.val = 1

(***************************************************************************)
(* Delete and Move run twice on the same scan: when the executor has       *)
(* returned it is called again with the arguments of the first call, the   *)
(* files being what the first call left.  The execution records what the   *)
(* first call returned (first).                                            *)
(***************************************************************************)
Removers == {"delete_files_with_tag", "move_files_with_tag"}

InitAgain ==
    /\ files \in ExecFiles
    /\ dirs = {"mods", "out", "usb"}
    /\ locked \in ExecLocked
    /\ \E fn \in Removers, jar_to_modid \in ExecMappings, module \in ExecModules,
          tag \in DefaultTags :
         \E target \in ExecTargets(fn) :
            call = Begin(fn, "mods", jar_to_modid, module, tag, target,
                         World(files, dirs, locked)) @@ [first |-> NoneOpt]
    /\ state = NoApp

\* the same operation is run a second time
Again ==
    /\ Executing /\ call.pc = "done"
    /\ ~call.first.some
    /\ call' = Begin(call.fn, call.dir, call.jar_to_modid, call.module, call.tag,
                     call.target, Here) @@ [first |-> Some(call.out)]
    /\ UNCHANGED <<files, dirs, locked, state>>

NextAgain == Open \/ Check \/ Act \/ CopyAfterRename \/ RemoveAfterCopy \/ Finish \/ Again

SpecAgain == InitAgain /\ [][NextAgain]_vars

\* the second run, of a first run that returned a count
SecondRun == call.first.some /\ call.first.val.ok
\* a move whose destination is the directory the jars are in
MoveInPlace == call.fn = "move_files_with_tag" /\ call.target = call.dir

\* C24 as stated: after a first run that returned a count, the second run of
\* Delete or Move changes no file and returns Ok(0).
C24_SecondRunDoesNothing ==
    SecondRun =>
        /\ files = call.pre
        /\ call.pc = "done" => call.out = Ok(0)

\* C24, amended: after a first run that returned a count, the second run of
\* Delete or Move changes no file at any point, and it returns Ok(0) unless
\* it is a move into the directory the jars are in, which returns the count
\* of the first run again.
C24_SecondRunAfterSuccess ==
    SecondRun =>
        /\ files = call.pre
        /\ call.pc = "done" =>
              call.out = IF MoveInPlace THEN call.first.val ELSE Ok(0)

\* two jars were moved to another volume by the first run, and the second
\* run has returned Ok(0)
C24_Witness ==
    /\ Returned("move_files_with_tag")
    /\ call.target = "usb"
    /\ call.first = Some(Ok(2))
    /\ call.out = Ok(0)
    /\ <<"usb", "a.jar">> \in DOMAIN files
    /\ <<"mods", "a.jar">> \notin DOMAIN files

====
